---- MODULE Spec2Model ----
(***************************************************************************)
(* Model of the segmentation-and-pipeline core of audio-creator:           *)
(*   app/processors/structure_detector.py  StructureDetector               *)
(*   app/audio/pipeline.py                 AudioPipeline                   *)
(*   app/audio/generator.py                AudioGenerator                  *)
(*   app/audio/combiner.py                 AudioCombiner                   *)
(* Text is a sequence of one-character strings.                            *)
(***************************************************************************)
EXTENDS Integers, Sequences, FiniteSets, TLC

VARIABLES
    det,        \* StructureDetector.split_into_chapters: locals of one call
    chunker,    \* AudioPipeline._chunk_text: arguments and result of one call
    fs,         \* the paths (files and directories) that exist
    gen,        \* AudioGenerator: its voice and the state of one generate_chunk call
    comb,       \* AudioCombiner: the state of one combine call
    conv,       \* AudioConverter: the state of one to_mp3 / to_m4b call
    pipe,       \* AudioPipeline.process_document / _process_chapter: locals
    hist        \* history of the synthesis calls of the current chapter: the output
                \* paths generate_chunk was called with, those whose call
                \* returned, and those returned with the file written

vars == <<det, chunker, fs, gen, comb, conv, pipe, hist>>

textVars == <<det, chunker>>

audioVars == <<fs, gen, comb, conv, pipe, hist>>

(***************************************************************************)
(* Bounds of the model.                                                    *)
(***************************************************************************)
MaxLines == 4

MaxTextLen == 5

MaxBudget == 4

\* Clock ticks that make up the per-call synthesis timeout of the design.
TimeoutTicks == 1

\* The clock is observed one tick past the timeout.
MaxTicks == TimeoutTicks + 1

(***************************************************************************)
(* Characters and the string methods the code uses.                        *)
(***************************************************************************)
UpperAlpha == <<"A","B","C","D","E","F","G","H","I","J","K","L","M",
                "N","O","P","Q","R","S","T","U","V","W","X","Y","Z">>

LowerAlpha == <<"a","b","c","d","e","f","g","h","i","j","k","l","m",
                "n","o","p","q","r","s","t","u","v","w","x","y","z">>

RangeOf(s) == {s[i] : i \in 1..Len(s)}

UpperLetters == RangeOf(UpperAlpha)

LowerLetters == RangeOf(LowerAlpha)

Digits == {"0","1","2","3","4","5","6","7","8","9"}

\* Letters outside ASCII, each one character: the Cyrillic capital and small
\* ZHE, written by their code points.
NonAsciiUpper == {"U+0416"}

NonAsciiLower == {"U+0436"}

\* str.strip() with no argument and the regex class \s remove/match these.
Whitespace == {" ", "\t", "\n", "\r"}

\* re.IGNORECASE compares letters without case.
LowerChar(c) ==
    IF c \in UpperLetters
    THEN LowerAlpha[CHOOSE i \in 1..Len(UpperAlpha) : UpperAlpha[i] = c]
    ELSE c

\* The regex class \w on str patterns: letters of any script, digits and
\* the underscore.
IsWordChar(c) ==
    c \in UpperLetters \cup LowerLetters \cup NonAsciiUpper \cup NonAsciiLower
            \cup Digits \cup {"_"}

\* str.strip(): drop leading and trailing whitespace.
RECURSIVE LStrip(_)
LStrip(s) ==
    IF s = <<>> THEN <<>>
    ELSE IF Head(s) \in Whitespace THEN LStrip(Tail(s)) ELSE s

RECURSIVE RStrip(_)
RStrip(s) ==
    IF s = <<>> THEN <<>>
    ELSE IF s[Len(s)] \in Whitespace THEN RStrip(SubSeq(s, 1, Len(s) - 1)) ELSE s

Strip(s) == RStrip(LStrip(s))

\* Whether sep occurs in s at position i.
OccursAt(s, sep, i) ==
    /\ i >= 1
    /\ i + Len(sep) - 1 <= Len(s)
    /\ SubSeq(s, i, i + Len(sep) - 1) = sep

\* str.find: the first position of sep in s, 0 when there is none.
Find(s, sep) ==
    IF \E i \in 1..Len(s) : OccursAt(s, sep, i)
    THEN CHOOSE i \in 1..Len(s) :
            /\ OccursAt(s, sep, i)
            /\ \A j \in 1..(i - 1) : ~OccursAt(s, sep, j)
    ELSE 0

\* str.split(sep) for a non-empty separator: left to right, non-overlapping.
RECURSIVE Split(_, _)
Split(s, sep) ==
    LET j == Find(s, sep)
    IN  IF j = 0 THEN <<s>>
        ELSE <<SubSeq(s, 1, j - 1)>> \o Split(SubSeq(s, j + Len(sep), Len(s)), sep)

\* sep.join(parts)
RECURSIVE Join(_, _)
Join(parts, sep) ==
    IF parts = <<>> THEN <<>>
    ELSE IF Len(parts) = 1 THEN parts[1]
    ELSE parts[1] \o sep \o Join(Tail(parts), sep)

\* str.endswith('.')
EndsWithPeriod(s) == s # <<>> /\ s[Len(s)] = "."

\* All sequences over S of length 0..n.
SeqsUpTo(S, n) == UNION {[1..k -> S] : k \in 0..n}

(***************************************************************************)
(* StructureDetector._is_chapter_header                                    *)
(***************************************************************************)
ChapterWord == <<"c", "h", "a", "p", "t", "e", "r">>

\* Length of the longest run of characters of class C in s starting at i.
RECURSIVE RunLen(_, _, _)
RunLen(s, i, C) ==
    IF i <= Len(s) /\ s[i] \in C THEN 1 + RunLen(s, i + 1, C) ELSE 0

LowerSeq(s) == [i \in 1..Len(s) |-> LowerChar(s[i])]

StartsWithChapter(line) ==
    /\ Len(line) >= Len(ChapterWord)
    /\ LowerSeq(SubSeq(line, 1, Len(ChapterWord))) = ChapterWord

\* [\dIVX] under re.IGNORECASE
RomanOrDigit == Digits \cup {"I", "V", "X", "i", "v", "x"}

\* [IVX] under re.IGNORECASE
RomanChars == {"I", "V", "X", "i", "v", "x"}

\* r'^chapter\s+[\dIVX]+'
MatchChapterNumber(line) ==
    /\ StartsWithChapter(line)
    /\ LET ws == RunLen(line, 8, Whitespace)
       IN  /\ ws >= 1
           /\ 8 + ws <= Len(line)
           /\ line[8 + ws] \in RomanOrDigit

\* r'^chapter\s+\w+$'
MatchChapterWord(line) ==
    /\ StartsWithChapter(line)
    /\ LET ws == RunLen(line, 8, Whitespace)
       IN  /\ ws >= 1
           /\ 8 + ws <= Len(line)
           /\ \A i \in (8 + ws)..Len(line) : IsWordChar(line[i])

\* The numbered rule anchored at the end of the line like the word rule.
MatchNumbered_Anchored(line) ==
    LET d == RunLen(line, 1, Digits)
    IN  /\ d >= 1
        /\ d + 1 <= Len(line)
        /\ line[d + 1] = "."
        /\ LET ws == RunLen(line, d + 2, Whitespace)
           IN  /\ ws >= 1
               /\ d + 2 + ws <= Len(line)
               /\ \A i \in (d + 2 + ws)..Len(line) : IsWordChar(line[i])

\* r'^\d+\.\s+\w+'
MatchNumbered(line) ==
    LET d == RunLen(line, 1, Digits)
    IN  /\ d >= 1
        /\ d + 1 <= Len(line)
        /\ line[d + 1] = "."
        /\ LET ws == RunLen(line, d + 2, Whitespace)
           IN  /\ ws >= 1
               /\ d + 2 + ws <= Len(line)
               /\ IsWordChar(line[d + 2 + ws])

\* r'^[IVX]+\.\s+\w+'
MatchRoman(line) ==
    LET d == RunLen(line, 1, RomanChars)
    IN  /\ d >= 1
        /\ d + 1 <= Len(line)
        /\ line[d + 1] = "."
        /\ LET ws == RunLen(line, d + 2, Whitespace)
           IN  /\ ws >= 1
               /\ d + 2 + ws <= Len(line)
               /\ IsWordChar(line[d + 2 + ws])

\* self.chapter_patterns, tried in order with re.match
MatchesChapterPattern(line) ==
    \/ MatchChapterNumber(line)
    \/ MatchChapterWord(line)
    \/ MatchNumbered(line)
    \/ MatchRoman(line)

\* str.isupper(): at least one cased character and no lower-case one.
IsUpper(line) ==
    /\ \E i \in 1..Len(line) : line[i] \in UpperLetters \cup NonAsciiUpper
    /\ \A i \in 1..Len(line) : line[i] \notin LowerLetters \cup NonAsciiLower

\* Lines 85-102; the last test is re.search(r'[A-Z]', line), ASCII only.
IsChapterHeader(line) ==
    IF line = <<>> THEN FALSE
    ELSE IF MatchesChapterPattern(line) THEN TRUE
    ELSE IF IsUpper(line) /\ 3 < Len(line) /\ Len(line) < 50
         THEN \E i \in 1..Len(line) : line[i] \in UpperLetters
         ELSE FALSE

(***************************************************************************)
(* StructureDetector.split_into_chapters, one action per loop iteration.   *)
(***************************************************************************)
Introduction == <<"I", "n", "t", "r", "o", "d", "u", "c", "t", "i", "o", "n">>

\* Lines the input texts are built from: blank lines, headings of every
\* rule, body lines.
LinePool == {
    <<>>,
    <<" ">>,
    <<"C", "h", "a", "p", "t", "e", "r", " ", "7">>,
    <<"c", "h", "a", "p", "t", "e", "r", " ", "o", "n", "e">>,
    <<"2", ".", " ", "T", "w", "o">>,
    <<"T", "H", "E", " ", "E", "N", "D">>,
    <<"H", "e", "l", "l", "o", ".">>,
    <<" ", "t", "e", "x", "t", " ">> }

Newline == <<"\n">>

DetTexts == {Join(ls, Newline) : ls \in SeqsUpTo(LinePool, MaxLines)}

\* State at entry of split_into_chapters(text), after line 42.
DetEntry(text) ==
    [pc |-> "scan",
     text |-> text,
     lines |-> Split(text, Newline),
     idx |-> 1,
     current_title |-> Introduction,
     current_lines |-> <<>>,
     chapter_num |-> 1,
     found_any_structure |-> FALSE,
     chapters |-> <<>>]

DetIdle == [pc |-> "idle"]

ParsedChapter(title, content, number) ==
    [title |-> title, content |-> content, number |-> number]

\* Lines 47-64: the line is a header; close the previous chapter, start new.
DetHeaderLine_CountEveryHeading ==
    /\ det.pc = "scan"
    /\ det.idx <= Len(det.lines)
    /\ LET line == det.lines[det.idx]
           line_stripped == Strip(line)
           content == Strip(Join(det.current_lines, Newline))
           emit == det.current_lines # <<>> /\ content # <<>>
       IN  /\ IsChapterHeader(line_stripped)
           /\ det' = [det EXCEPT
                 !.found_any_structure = TRUE,
                 !.chapters = IF emit
                              THEN Append(@, ParsedChapter(det.current_title,
                                                           content, det.chapter_num))
                              ELSE @,
                 !.chapter_num = @ + 1,
                 !.current_title = line_stripped,
                 !.current_lines = <<>>,
                 !.idx = @ + 1]
    /\ UNCHANGED <<chunker, audioVars>>

\* The closed chapter is given the title of the heading that closes it.
DetHeaderLine_TitleOfNextHeading ==
    /\ det.pc = "scan"
    /\ det.idx <= Len(det.lines)
    /\ LET line == det.lines[det.idx]
           line_stripped == Strip(line)
           content == Strip(Join(det.current_lines, Newline))
           emit == det.current_lines # <<>> /\ content # <<>>
       IN  /\ IsChapterHeader(line_stripped)
           /\ det' = [det EXCEPT
                 !.found_any_structure = TRUE,
                 !.chapters = IF emit
                              THEN Append(@, ParsedChapter(line_stripped,
                                                           content, det.chapter_num))
                              ELSE @,
                 !.chapter_num = IF emit THEN @ + 1 ELSE @,
                 !.current_title = line_stripped,
                 !.current_lines = <<>>,
                 !.idx = @ + 1]
    /\ UNCHANGED <<chunker, audioVars>>

\* The buffer is not reset when a heading starts a new chapter.
DetHeaderLine_KeepBuffer ==
    /\ det.pc = "scan"
    /\ det.idx <= Len(det.lines)
    /\ LET line == det.lines[det.idx]
           line_stripped == Strip(line)
           content == Strip(Join(det.current_lines, Newline))
           emit == det.current_lines # <<>> /\ content # <<>>
       IN  /\ IsChapterHeader(line_stripped)
           /\ det' = [det EXCEPT
                 !.found_any_structure = TRUE,
                 !.chapters = IF emit
                              THEN Append(@, ParsedChapter(det.current_title,
                                                           content, det.chapter_num))
                              ELSE @,
                 !.chapter_num = IF emit THEN @ + 1 ELSE @,
                 !.current_title = line_stripped,
                 !.idx = @ + 1]
    /\ UNCHANGED <<chunker, audioVars>>

DetHeaderLine ==
    /\ det.pc = "scan"
    /\ det.idx <= Len(det.lines)
    /\ LET line == det.lines[det.idx]
           line_stripped == Strip(line)
           content == Strip(Join(det.current_lines, Newline))
           emit == det.current_lines # <<>> /\ content # <<>>
       IN  /\ IsChapterHeader(line_stripped)
           /\ det' = [det EXCEPT
                 !.found_any_structure = TRUE,
                 !.chapters = IF emit
                              THEN Append(@, ParsedChapter(det.current_title,
                                                           content, det.chapter_num))
                              ELSE @,
                 !.chapter_num = IF emit THEN @ + 1 ELSE @,
                 !.current_title = line_stripped,
                 !.current_lines = <<>>,
                 !.idx = @ + 1]
    /\ UNCHANGED <<chunker, audioVars>>

\* Lines 65-66: any other line is appended to the buffer, unstripped.
DetBodyLine ==
    /\ det.pc = "scan"
    /\ det.idx <= Len(det.lines)
    /\ ~IsChapterHeader(Strip(det.lines[det.idx]))
    /\ det' = [det EXCEPT !.current_lines = Append(@, det.lines[det.idx]),
                          !.idx = @ + 1]
    /\ UNCHANGED <<chunker, audioVars>>

\* Lines 68-83: flush the last buffer and return.
DetFlush_AlwaysWrap ==
    /\ det.pc = "scan"
    /\ det.idx > Len(det.lines)
    /\ LET content == Strip(Join(det.current_lines, Newline))
       IN  det' = [det EXCEPT
                 !.pc = "done",
                 !.chapters = IF det.current_lines # <<>> /\ content # <<>>
                              THEN Append(@, ParsedChapter(det.current_title,
                                                           content, det.chapter_num))
                              ELSE @]
    /\ UNCHANGED <<chunker, audioVars>>

DetFlush ==
    /\ det.pc = "scan"
    /\ det.idx > Len(det.lines)
    /\ LET content == Strip(Join(det.current_lines, Newline))
       IN  det' = [det EXCEPT
                 !.pc = "done",
                 !.chapters = IF det.current_lines # <<>> /\ content # <<>>
                              THEN IF ~det.found_any_structure
                                   THEN <<>>
                                   ELSE Append(@, ParsedChapter(det.current_title,
                                                           content, det.chapter_num))
                              ELSE @]
    /\ UNCHANGED <<chunker, audioVars>>

ChunkerIdle == [pc |-> "idle"]

\* No audio component is in use.
AudioIdle ==
    /\ fs = {}
    /\ gen = [pc |-> "idle"]
    /\ comb = [pc |-> "idle"]
    /\ conv = [pc |-> "idle"]
    /\ pipe = [pc |-> "idle"]
    /\ hist = [engine_ok |-> {}, returned |-> {}, called |-> {}]

InitDetector ==
    /\ det \in {DetEntry(t) : t \in DetTexts}
    /\ chunker = ChunkerIdle
    /\ AudioIdle

NextDetector ==
    \/ DetHeaderLine
    \/ DetBodyLine
    \/ DetFlush

SpecDetector == InitDetector /\ [][NextDetector]_vars

\* Whether some line of the text is classified as a heading.
HasHeading(text) ==
    LET ls == Split(text, Newline)
    IN  \E i \in 1..Len(ls) : IsChapterHeader(Strip(ls[i]))

(* C1: for a text with at least one heading line, the returned chapters are
   numbered 1, 2, ..., N in emission order and none has content that is
   empty after trimming. *)
C1_SequentialNumbersNonEmptyContent ==
    (det.pc = "done" /\ HasHeading(det.text)) =>
        \A k \in 1..Len(det.chapters) :
            /\ det.chapters[k].number = k
            /\ Strip(det.chapters[k].content) # <<>>

\* Two chapters returned, the first under a heading whose own number is 7
\* and which closed a buffer without content.
C1_Witness ==
    /\ det.pc = "done"
    /\ Len(det.chapters) >= 2
    /\ det.chapters[1].title = <<"C", "h", "a", "p", "t", "e", "r", " ", "7">>
    /\ det.chapters[1].number = 1
    /\ det.chapters[2].number = 2
    /\ Strip(det.lines[1]) = det.chapters[1].title

(* C2: for a text in which no line is classified as a heading, the returned
   chapter list is empty (no "Introduction" chapter is made up). *)
C2_NoHeadingNoChapters ==
    (det.pc = "done" /\ ~HasHeading(det.text)) => det.chapters = <<>>

\* A call returned for a text without heading that has non-blank content.
C2_Witness ==
    /\ det.pc = "done"
    /\ ~HasHeading(det.text)
    /\ Strip(det.text) # <<>>
    /\ det.chapters = <<>>

(***************************************************************************)
(* AudioPipeline._chunk_text                                               *)
(***************************************************************************)
ParagraphSep == <<"\n", "\n">>

SentenceSep == <<".", " ">>

Space == <<" ">>

\* Line 153: s + "." unless s already ends with a period.
SClean(s) == IF EndsWithPeriod(s) THEN s ELSE s \o <<".">>

\* Lines 149-163: greedy packing of the sentences of one long paragraph.
\* current_len sums the sentence lengths only.
RECURSIVE PackSentences(_, _, _, _, _)
PackSentences(sentences, current_chunk, current_len, max_chars, chunks) ==
    IF sentences = <<>>
    THEN IF current_chunk # <<>>
         THEN Append(chunks, Join(current_chunk, Space))
         ELSE chunks
    ELSE LET s_clean == SClean(Head(sentences))
         IN  IF current_len + Len(s_clean) > max_chars
             THEN PackSentences(Tail(sentences), <<s_clean>>, Len(s_clean), max_chars,
                                IF current_chunk # <<>>
                                THEN Append(chunks, Join(current_chunk, Space))
                                ELSE chunks)
             ELSE PackSentences(Tail(sentences), Append(current_chunk, s_clean),
                                current_len + Len(s_clean), max_chars, chunks)

\* Lines 141-165: the loop over the paragraphs.
RECURSIVE ChunkParagraphs(_, _, _)
ChunkParagraphs(paragraphs, max_chars, chunks) ==
    IF paragraphs = <<>> THEN chunks
    ELSE LET p == Strip(Head(paragraphs))
         IN  IF p = <<>>
             THEN ChunkParagraphs(Tail(paragraphs), max_chars, chunks)
             ELSE IF Len(p) > max_chars
             THEN ChunkParagraphs(Tail(paragraphs), max_chars,
                      PackSentences(Split(p, SentenceSep), <<>>, 0, max_chars, chunks))
             ELSE ChunkParagraphs(Tail(paragraphs), max_chars, Append(chunks, p))

ChunkText(text, max_chars) ==
    ChunkParagraphs(Split(text, ParagraphSep), max_chars, <<>>)

\* Characters of the chapter texts given to _chunk_text.
ChunkAlphabet == {"a", ".", " ", "\n"}

ChunkTexts == SeqsUpTo(ChunkAlphabet, MaxTextLen)

\* A call _chunk_text(text, max_chars) returns.
ChunkCall ==
    /\ chunker.pc = "call"
    /\ chunker' = [chunker EXCEPT !.pc = "done",
                                  !.chunks = ChunkText(chunker.text, chunker.max_chars)]
    /\ UNCHANGED <<det, audioVars>>

InitChunker ==
    /\ chunker \in {[pc |-> "call", text |-> t, max_chars |-> b, chunks |-> <<>>] :
                        t \in ChunkTexts, b \in 1..MaxBudget}
    /\ det = DetIdle
    /\ AudioIdle

NextChunker == ChunkCall

SpecChunker == InitChunker /\ [][NextChunker]_vars

\* A chunk holding one sentence only: no sentence boundary inside it.
IsSingleSentence(c) == Find(c, SentenceSep) = 0

(* C3: every chunk returned by _chunk_text(text, b) has at most b characters,
   unless it consists of exactly one sentence that is itself longer than b. *)
C3_ChunkWithinBudget ==
    chunker.pc = "done" =>
        \A k \in 1..Len(chunker.chunks) :
            \/ Len(chunker.chunks[k]) <= chunker.max_chars
            \/ IsSingleSentence(chunker.chunks[k])

NonWhitespace(s) == SelectSeq(s, LAMBDA c : c \notin Whitespace)

\* Whether a is a subsequence of b: the characters of a occur in b in order.
RECURSIVE IsSubsequence(_, _)
IsSubsequence(a, b) ==
    IF a = <<>> THEN TRUE
    ELSE IF b = <<>> THEN FALSE
    ELSE IF Head(a) = Head(b) THEN IsSubsequence(Tail(a), Tail(b))
    ELSE IsSubsequence(a, Tail(b))

(* C4: the chunks returned by _chunk_text, taken in order, recover all
   non-whitespace content of the input: every non-whitespace character of
   the input occurs in the chunks, in the same order, none dropped. *)
C4_NoTextLoss ==
    chunker.pc = "done" =>
        IsSubsequence(NonWhitespace(chunker.text),
                      NonWhitespace(Join(chunker.chunks, <<>>)))

(***************************************************************************)
(* Paths.  A path is a record; ch is the chapter index (0: a path given by *)
(* a direct caller of a stage), idx the chunk index.                       *)
(***************************************************************************)
Path(kind, ch, idx) == [kind |-> kind, ch |-> ch, idx |-> idx]

\* temp_dir / f"ch_{index}"
ChapterDir(ch) == Path("chdir", ch, 0)

\* chapter_temp_dir / f"chunk_{c_idx:04d}.aiff"
ChunkPath(ch, idx) == Path("chunk", ch, idx)

\* chapter_temp_dir / "combined_master.aiff"
MasterPath(ch) == Path("master", ch, 0)

TempDir == Path("tmpdir", 0, 0)

\* output_file.with_suffix(".mp3")
WithSuffixMp3(p) == Path("chunk_mp3", p.ch, p.idx)

\* Path.parent
Parent(p) ==
    IF p.kind \in {"chunk", "chunk_mp3", "master"} THEN ChapterDir(p.ch)
    ELSE IF p.kind = "chdir" THEN TempDir
    ELSE Path("outdir", 0, 0)

\* Path.mkdir(parents=True, exist_ok=True): the directory and its ancestors.
MkdirParents(d) ==
    IF d.kind = "chdir" THEN {d, TempDir} ELSE {d}

(***************************************************************************)
(* AudioGenerator.generate_chunk.  The engine is a child process; the      *)
(* call blocks in subprocess.run until the process exits.                  *)
(***************************************************************************)
Voices == {"Alex", "edge"}

\* Line 53: self.voice.lower() == "edge" or "neural" in self.voice.lower()
IsEdgeVoice(v) == v = "edge"

\* The speed multiplier self.rate is held in hundredths: 120 is 1.2.
RateScale == 100

\* __init__'s default rate, 1.0
DefaultRate == 100

\* Line 33: self.base_wpm
BaseWpm == 180

\* The rates r whose double product 180 * r falls just below the integer it
\* equals in exact arithmetic (180 * 1.15 is 206.99999999999997).
FloatShortfall == {35, 70, 115, 140, 205, 230, 255, 280}

\* The product rounded to the nearest integer.
Wpm_Rounded(rate) == (2 * BaseWpm * rate + RateScale) \div (2 * RateScale)

\* Line 60: int(self.base_wpm * self.rate), truncation of the double product.
Wpm(rate) ==
    IF rate \in FloatShortfall /\ (BaseWpm * rate) % RateScale = 0
    THEN (BaseWpm * rate) \div RateScale - 1
    ELSE (BaseWpm * rate) \div RateScale

\* generate_chunk(text, output_file) is entered.
GenCall(g, text, output_file, caller) ==
    [voice |-> g.voice, rate |-> g.rate, pc |-> "entry", text |-> text,
     output_file |-> output_file, caller |-> caller, engine_calls |-> 0,
     elapsed |-> 0, wpm |-> 0, result |-> "none"]

GenRunning == gen.pc \in {"say_running", "edge_running", "ffmpeg_running"}

\* Lines 49-51: blank text returns output_file at once.
GenSkipEmpty_InvokeAnyway ==
    /\ gen.pc = "entry"
    /\ Strip(gen.text) = <<>>
    /\ fs' = fs \cup MkdirParents(Parent(gen.output_file))
    /\ gen' = [gen EXCEPT !.pc = "say_running", !.engine_calls = @ + 1, !.elapsed = 0]
    /\ UNCHANGED <<textVars, comb, conv, pipe, hist>>

GenSkipEmpty ==
    /\ gen.pc = "entry"
    /\ Strip(gen.text) = <<>>
    /\ gen' = [gen EXCEPT !.pc = "returned", !.result = "output_file"]
    /\ UNCHANGED <<textVars, fs, comb, conv, pipe, hist>>

\* Lines 56-86: the directory is made and `say` is started.
GenSayStart ==
    /\ gen.pc = "entry"
    /\ Strip(gen.text) # <<>>
    /\ ~IsEdgeVoice(gen.voice)
    /\ fs' = fs \cup MkdirParents(Parent(gen.output_file))
    /\ gen' = [gen EXCEPT !.pc = "say_running", !.engine_calls = @ + 1,
                          !.elapsed = 0, !.wpm = Wpm(gen.rate)]
    /\ UNCHANGED <<textVars, comb, conv, pipe, hist>>

\* Lines 91-95: `say` is not installed.
GenSayNotFound ==
    /\ gen.pc = "entry"
    /\ Strip(gen.text) # <<>>
    /\ ~IsEdgeVoice(gen.voice)
    /\ fs' = fs \cup MkdirParents(Parent(gen.output_file))
    /\ gen' = [gen EXCEPT !.pc = "raised", !.result = "RuntimeError_not_found"]
    /\ UNCHANGED <<textVars, comb, conv, pipe, hist>>

\* Time passes while the speech engine runs (subprocess.run has no timeout).
EngineTick ==
    /\ gen.pc \in {"say_running", "edge_running"}
    /\ gen.elapsed < MaxTicks
    /\ gen' = [gen EXCEPT !.elapsed = @ + 1]
    /\ UNCHANGED <<textVars, fs, comb, conv, pipe, hist>>

\* The running `say` writes (part of) the output file.
SayWritesOutput ==
    /\ gen.pc = "say_running"
    /\ gen.output_file \notin fs
    /\ fs' = fs \cup {gen.output_file}
    /\ UNCHANGED <<textVars, gen, comb, conv, pipe, hist>>

\* Lines 81-86, 97: `say` exits 0; output_file is returned, unverified.
SayExitsZero ==
    /\ gen.pc = "say_running"
    /\ gen' = [gen EXCEPT !.pc = "returned", !.result = "output_file", !.elapsed = 0]
    /\ hist' = [hist EXCEPT
                    !.returned = @ \cup {gen.output_file},
                    !.engine_ok = IF gen.output_file \in fs
                                  THEN @ \cup {gen.output_file} ELSE @]
    /\ UNCHANGED <<textVars, fs, comb, conv, pipe>>

\* Lines 87-90: `say` exits non-zero; RuntimeError, no second attempt.
SayExitsNonZero_Retry ==
    /\ gen.pc = "say_running"
    /\ gen' = IF gen.engine_calls < 3
              THEN [gen EXCEPT !.engine_calls = @ + 1, !.elapsed = 0]
              ELSE [gen EXCEPT !.pc = "raised", !.result = "RuntimeError_exit"]
    /\ UNCHANGED <<textVars, fs, comb, conv, pipe, hist>>

SayExitsNonZero ==
    /\ gen.pc = "say_running"
    /\ gen' = [gen EXCEPT !.pc = "raised", !.result = "RuntimeError_exit", !.elapsed = 0]
    /\ UNCHANGED <<textVars, fs, comb, conv, pipe, hist>>

\* Lines 53-54, 133-143: an edge voice starts edge-tts (no mkdir).
GenEdgeStart ==
    /\ gen.pc = "entry"
    /\ Strip(gen.text) # <<>>
    /\ IsEdgeVoice(gen.voice)
    /\ gen' = [gen EXCEPT !.pc = "edge_running", !.engine_calls = @ + 1, !.elapsed = 0]
    /\ UNCHANGED <<textVars, fs, comb, conv, pipe, hist>>

\* Lines 158-160: edge-tts is not installed.
GenEdgeNotFound ==
    /\ gen.pc = "entry"
    /\ Strip(gen.text) # <<>>
    /\ IsEdgeVoice(gen.voice)
    /\ gen' = [gen EXCEPT !.pc = "raised", !.result = "RuntimeError_not_found"]
    /\ UNCHANGED <<textVars, fs, comb, conv, pipe, hist>>

\* The running edge-tts writes the intermediate MP3.
EdgeWritesMp3 ==
    /\ gen.pc = "edge_running"
    /\ WithSuffixMp3(gen.output_file) \notin fs
    /\ fs' = fs \cup {WithSuffixMp3(gen.output_file)}
    /\ UNCHANGED <<textVars, gen, comb, conv, pipe, hist>>

\* Lines 143-152: edge-tts exits 0 and ffmpeg is started on the MP3.
EdgeExitsZero ==
    /\ gen.pc = "edge_running"
    /\ gen' = [gen EXCEPT !.pc = "ffmpeg_running", !.elapsed = 0]
    /\ UNCHANGED <<textVars, fs, comb, conv, pipe, hist>>

\* Lines 158-160: edge-tts exits non-zero, or ffmpeg is not installed.
EdgeExitsNonZero ==
    /\ gen.pc = "edge_running"
    /\ gen' = [gen EXCEPT !.pc = "raised", !.result = "RuntimeError_exit", !.elapsed = 0]
    /\ UNCHANGED <<textVars, fs, comb, conv, pipe, hist>>

\* The running ffmpeg writes (part of) the AIFF output.
FfmpegWritesOutput ==
    /\ gen.pc = "ffmpeg_running"
    /\ gen.output_file \notin fs
    /\ fs' = fs \cup {gen.output_file}
    /\ UNCHANGED <<textVars, gen, comb, conv, pipe, hist>>

\* Lines 154-156, 162: ffmpeg exits 0; the MP3 is removed, output_file returned.
FfmpegExitsZero ==
    /\ gen.pc = "ffmpeg_running"
    /\ fs' = fs \ {WithSuffixMp3(gen.output_file)}
    /\ gen' = [gen EXCEPT !.pc = "returned", !.result = "output_file"]
    /\ hist' = [hist EXCEPT
                    !.returned = @ \cup {gen.output_file},
                    !.engine_ok = IF gen.output_file \in fs
                                  THEN @ \cup {gen.output_file} ELSE @]
    /\ UNCHANGED <<textVars, comb, conv, pipe>>

\* Lines 158-160: ffmpeg exits non-zero.
FfmpegExitsNonZero ==
    /\ gen.pc = "ffmpeg_running"
    /\ gen' = [gen EXCEPT !.pc = "raised", !.result = "RuntimeError_convert"]
    /\ UNCHANGED <<textVars, fs, comb, conv, pipe, hist>>

(***************************************************************************)
(* AudioCombiner.combine                                                   *)
(***************************************************************************)
\* combine(input_files, output_file) is entered.
CombCall(input_files, output_file, caller) ==
    [pc |-> "entry", input_files |-> input_files, output_file |-> output_file,
     caller |-> caller, sox_calls |-> 0, sox_args |-> <<>>, result |-> "none"]

\* Lines 31-32: no input files.
CombRejectEmpty ==
    /\ comb.pc = "entry"
    /\ comb.input_files = <<>>
    /\ comb' = [comb EXCEPT !.pc = "raised", !.result = "ValueError"]
    /\ UNCHANGED <<textVars, fs, gen, conv, pipe, hist>>

\* Lines 34-55: the copy shortcut for one input, which the code does not take.
CombSoxStart_CopySingle ==
    /\ comb.pc = "entry"
    /\ comb.input_files # <<>>
    /\ fs' = fs \cup MkdirParents(Parent(comb.output_file))
              \cup (IF Len(comb.input_files) = 1 THEN {comb.output_file} ELSE {})
    /\ comb' = IF Len(comb.input_files) = 1
               THEN [comb EXCEPT !.pc = "returned", !.result = "output_file"]
               ELSE [comb EXCEPT !.pc = "sox_running", !.sox_calls = @ + 1,
                                 !.sox_args = comb.input_files]
    /\ UNCHANGED <<textVars, gen, conv, pipe, hist>>

\* Lines 34-55: the directory is made and sox is started on the inputs, in
\* the order received, also for a single input.
CombSoxStart ==
    /\ comb.pc = "entry"
    /\ comb.input_files # <<>>
    /\ fs' = fs \cup MkdirParents(Parent(comb.output_file))
    /\ comb' = [comb EXCEPT !.pc = "sox_running", !.sox_calls = @ + 1,
                            !.sox_args = comb.input_files]
    /\ UNCHANGED <<textVars, gen, conv, pipe, hist>>

\* Lines 60-63: sox is not installed.
CombSoxNotFound ==
    /\ comb.pc = "entry"
    /\ comb.input_files # <<>>
    /\ fs' = fs \cup MkdirParents(Parent(comb.output_file))
    /\ comb' = [comb EXCEPT !.pc = "raised", !.result = "RuntimeError_not_found"]
    /\ UNCHANGED <<textVars, gen, conv, pipe, hist>>

\* The running sox writes (part of) the output file.
SoxWritesOutput ==
    /\ comb.pc = "sox_running"
    /\ comb.output_file \notin fs
    /\ fs' = fs \cup {comb.output_file}
    /\ UNCHANGED <<textVars, gen, comb, conv, pipe, hist>>

\* Lines 50-55, 65: sox exits 0.
SoxExitsZero ==
    /\ comb.pc = "sox_running"
    /\ comb' = [comb EXCEPT !.pc = "returned", !.result = "output_file"]
    /\ UNCHANGED <<textVars, fs, gen, conv, pipe, hist>>

\* Lines 56-59: sox exits non-zero.
SoxExitsNonZero ==
    /\ comb.pc = "sox_running"
    /\ comb' = [comb EXCEPT !.pc = "raised", !.result = "RuntimeError_exit"]
    /\ UNCHANGED <<textVars, fs, gen, conv, pipe, hist>>

(***************************************************************************)
(* AudioConverter.to_mp3 / to_m4b                                          *)
(***************************************************************************)
\* output_file.parent / "concat_list.txt"
ManifestPath == Path("manifest", 0, 0)

\* to_mp3(input_file, output_file) or to_m4b([input_file], output_file) is entered.
ConvCall(format, input_file, output_file) ==
    [pc |-> "entry", format |-> format, input_file |-> input_file,
     output_file |-> output_file, result |-> "none"]

\* to_mp3 lines 31-47: the directory is made and ffmpeg is started.
ConvMp3Start ==
    /\ conv.pc = "entry"
    /\ conv.format # "m4b"
    /\ fs' = fs \cup MkdirParents(Parent(conv.output_file))
    /\ conv' = [conv EXCEPT !.pc = "ffmpeg_running"]
    /\ UNCHANGED <<textVars, gen, comb, pipe, hist>>

\* _run_command lines 106-112: ffmpeg is not installed; FileNotFoundError
\* is not caught there.
ConvMp3NotFound ==
    /\ conv.pc = "entry"
    /\ conv.format # "m4b"
    /\ fs' = fs \cup MkdirParents(Parent(conv.output_file))
    /\ conv' = [conv EXCEPT !.pc = "raised", !.result = "FileNotFoundError"]
    /\ UNCHANGED <<textVars, gen, comb, pipe, hist>>

\* to_m4b lines 67-77: the directory is made and the manifest written.
ConvM4bWriteManifest ==
    /\ conv.pc = "entry"
    /\ conv.format = "m4b"
    /\ fs' = fs \cup MkdirParents(Parent(conv.output_file)) \cup {ManifestPath}
    /\ conv' = [conv EXCEPT !.pc = "manifest_written"]
    /\ UNCHANGED <<textVars, gen, comb, pipe, hist>>

\* to_m4b lines 73-77: opening or writing the manifest fails, outside the
\* try/finally; the file may have been created.
ConvM4bManifestFails ==
    /\ conv.pc = "entry"
    /\ conv.format = "m4b"
    /\ \E created \in BOOLEAN :
            fs' = fs \cup MkdirParents(Parent(conv.output_file))
                     \cup (IF created THEN {ManifestPath} ELSE {})
    /\ conv' = [conv EXCEPT !.pc = "raised", !.result = "OSError"]
    /\ UNCHANGED <<textVars, gen, comb, pipe, hist>>

\* to_m4b lines 95-96: ffmpeg is started on the manifest.
ConvM4bStart ==
    /\ conv.pc = "manifest_written"
    /\ conv' = [conv EXCEPT !.pc = "ffmpeg_running"]
    /\ UNCHANGED <<textVars, fs, gen, comb, pipe, hist>>

\* to_m4b lines 95-100: ffmpeg is not installed; the finally removes the manifest.
ConvM4bNotFound ==
    /\ conv.pc = "manifest_written"
    /\ fs' = fs \ {ManifestPath}
    /\ conv' = [conv EXCEPT !.pc = "raised", !.result = "FileNotFoundError"]
    /\ UNCHANGED <<textVars, gen, comb, pipe, hist>>

\* The running ffmpeg writes (part of) the final file.
ConvFfmpegWritesOutput ==
    /\ conv.pc = "ffmpeg_running"
    /\ conv.output_file \notin fs
    /\ fs' = fs \cup {conv.output_file}
    /\ UNCHANGED <<textVars, gen, comb, conv, pipe, hist>>

\* ffmpeg exits 0; to_m4b's finally removes the manifest.
ConvFfmpegExitsZero ==
    /\ conv.pc = "ffmpeg_running"
    /\ fs' = IF conv.format = "m4b" THEN fs \ {ManifestPath} ELSE fs
    /\ conv' = [conv EXCEPT !.pc = "returned", !.result = "output_file"]
    /\ UNCHANGED <<textVars, gen, comb, pipe, hist>>

\* _run_command lines 113-116: ffmpeg exits non-zero; RuntimeError.
ConvFfmpegExitsNonZero ==
    /\ conv.pc = "ffmpeg_running"
    /\ fs' = IF conv.format = "m4b" THEN fs \ {ManifestPath} ELSE fs
    /\ conv' = [conv EXCEPT !.pc = "raised", !.result = "RuntimeError_exit"]
    /\ UNCHANGED <<textVars, gen, comb, pipe, hist>>

(***************************************************************************)
(* AudioPipeline.process_document and _process_chapter                     *)
(***************************************************************************)
\* _chunk_text's default max_chars
DefaultMaxChars == 1000

OutputDir == Path("outdir", 0, 0)

\* self.output_dir / f"{index:02d} - {safe_title}.{self.format}"
FinalPath(index) == Path("final", index, 0)

\* Everything under the TemporaryDirectory.
InWorkspace(p) == p.kind \in {"tmpdir", "chdir", "chunk", "chunk_mp3", "master"}

ParsedDocument(title, content, chapters) ==
    [title |-> title, content |-> content, chapters |-> chapters]

\* The whole content is synthesized as one chapter whatever the chapters.
UnitsOf_AlwaysContent(document) ==
    <<ParsedChapter(document.title, document.content, 1)>>

\* Lines 52-54, 65-69: the chapters, or the whole content as one chapter.
UnitsOf(document) ==
    IF document.chapters # <<>> THEN document.chapters
    ELSE <<ParsedChapter(document.title, document.content, 1)>>

\* process_document(document) is entered; __init__ has made output_dir.
PipeEntry(document, format) ==
    [pc |-> "start", document |-> document, format |-> format,
     units |-> UnitsOf(document), i |-> 1,
     chunks |-> <<>>, c_idx |-> 0, chunk_files |-> <<>>, final_files |-> <<>>,
     log |-> <<>>, error |-> "none"]

\* A warning or error record of the logger about chapter index.
LogEntry(index, what) == [index |-> index, what |-> what]

\* Line 48: the temporary directory is created.
PDCreateTempDir ==
    /\ pipe.pc = "start"
    /\ fs' = fs \cup {TempDir}
    /\ pipe' = [pipe EXCEPT !.pc = "chapter_loop"]
    /\ UNCHANGED <<textVars, gen, comb, conv, hist>>

\* Line 48: the temporary directory cannot be created; the error escapes.
PDTempDirFails ==
    /\ pipe.pc = "start"
    /\ pipe' = [pipe EXCEPT !.pc = "crashed", !.error = "OSError"]
    /\ UNCHANGED <<textVars, fs, gen, comb, conv, hist>>

\* The blank chapter is dropped from the list, the chapters after it moving
\* up by one index.
PCSkipChapter_DropUnit ==
    /\ pipe.pc = "chapter_loop"
    /\ pipe.i <= Len(pipe.units)
    /\ LET content == pipe.units[pipe.i].content
       IN  \/ Strip(content) = <<>>
           \/ ChunkText(content, DefaultMaxChars) = <<>>
    /\ pipe' = [pipe EXCEPT
            !.units = SubSeq(@, 1, pipe.i - 1) \o SubSeq(@, pipe.i + 1, Len(@)),
            !.log = Append(@, LogEntry(pipe.i, "empty"))]
    /\ UNCHANGED <<textVars, fs, gen, comb, conv, hist>>

\* Lines 84-94: a chapter with blank content, or without chunks, is skipped.
PCSkipChapter ==
    /\ pipe.pc = "chapter_loop"
    /\ pipe.i <= Len(pipe.units)
    /\ LET content == pipe.units[pipe.i].content
       IN  \/ Strip(content) = <<>>
           \/ ChunkText(content, DefaultMaxChars) = <<>>
    /\ pipe' = [pipe EXCEPT
            !.i = @ + 1,
            !.log = IF Strip(pipe.units[pipe.i].content) = <<>>
                    THEN Append(@, LogEntry(pipe.i, "empty")) ELSE @]
    /\ UNCHANGED <<textVars, fs, gen, comb, conv, hist>>

\* Lines 84-99: the chapter is chunked and its directory made.
PCEnterChapter ==
    /\ pipe.pc = "chapter_loop"
    /\ pipe.i <= Len(pipe.units)
    /\ LET content == pipe.units[pipe.i].content
           chunks == ChunkText(content, DefaultMaxChars)
       IN  /\ Strip(content) # <<>>
           /\ chunks # <<>>
           /\ pipe' = [pipe EXCEPT !.pc = "chunk_loop", !.chunks = chunks,
                                   !.c_idx = 0, !.chunk_files = <<>>]
    /\ fs' = fs \cup {ChapterDir(pipe.i)}
    /\ hist' = [engine_ok |-> {}, returned |-> {}, called |-> {}]
    /\ UNCHANGED <<textVars, gen, comb, conv>>

\* Lines 102-105: generate_chunk is called for the next chunk.
PCGenerate ==
    /\ pipe.pc = "chunk_loop"
    /\ pipe.c_idx < Len(pipe.chunks)
    /\ gen' = GenCall(gen, pipe.chunks[pipe.c_idx + 1],
                      ChunkPath(pipe.i, pipe.c_idx), "pipeline")
    /\ pipe' = [pipe EXCEPT !.pc = "generating"]
    /\ hist' = [hist EXCEPT !.called = @ \cup {ChunkPath(pipe.i, pipe.c_idx)}]
    /\ UNCHANGED <<textVars, fs, comb, conv>>

\* The chunk path is appended whenever generate_chunk returned.
PCAfterGenerate_NoExistsCheck ==
    /\ pipe.pc = "generating"
    /\ gen.pc \in {"returned", "raised"}
    /\ LET chunk_path == ChunkPath(pipe.i, pipe.c_idx)
       IN  pipe' = [pipe EXCEPT
                !.pc = "chunk_loop",
                !.c_idx = @ + 1,
                !.chunk_files = IF gen.pc = "returned"
                                THEN Append(@, chunk_path) ELSE @]
    /\ gen' = [voice |-> gen.voice, rate |-> gen.rate, pc |-> "idle"]
    /\ UNCHANGED <<textVars, fs, comb, conv, hist>>

\* The chunk path is put in front of the list instead of at its end.
PCAfterGenerate_Prepend ==
    /\ pipe.pc = "generating"
    /\ gen.pc \in {"returned", "raised"}
    /\ LET chunk_path == ChunkPath(pipe.i, pipe.c_idx)
       IN  pipe' = [pipe EXCEPT
                !.pc = "chunk_loop",
                !.c_idx = @ + 1,
                !.chunk_files = IF gen.pc = "returned" /\ chunk_path \in fs
                                THEN <<chunk_path>> \o @ ELSE @]
    /\ gen' = [voice |-> gen.voice, rate |-> gen.rate, pc |-> "idle"]
    /\ UNCHANGED <<textVars, fs, comb, conv, hist>>

\* A chunk whose call raised ends the chunk loop of the chapter.
PCAfterGenerate_BreakOnFailure ==
    /\ pipe.pc = "generating"
    /\ gen.pc \in {"returned", "raised"}
    /\ LET chunk_path == ChunkPath(pipe.i, pipe.c_idx)
       IN  pipe' = [pipe EXCEPT
                !.pc = "chunk_loop",
                !.c_idx = IF gen.pc = "raised" THEN Len(pipe.chunks) ELSE @ + 1,
                !.chunk_files = IF gen.pc = "returned" /\ chunk_path \in fs
                                THEN Append(@, chunk_path) ELSE @]
    /\ gen' = [voice |-> gen.voice, rate |-> gen.rate, pc |-> "idle"]
    /\ UNCHANGED <<textVars, fs, comb, conv, hist>>

\* Lines 104-109: generate_chunk returned or raised; the chunk path is
\* appended only if the call returned and the file exists.
PCAfterGenerate ==
    /\ pipe.pc = "generating"
    /\ gen.pc \in {"returned", "raised"}
    /\ LET chunk_path == ChunkPath(pipe.i, pipe.c_idx)
       IN  pipe' = [pipe EXCEPT
                !.pc = "chunk_loop",
                !.c_idx = @ + 1,
                !.chunk_files = IF gen.pc = "returned" /\ chunk_path \in fs
                                THEN Append(@, chunk_path) ELSE @]
    /\ gen' = [voice |-> gen.voice, rate |-> gen.rate, pc |-> "idle"]
    /\ UNCHANGED <<textVars, fs, comb, conv, hist>>

\* Lines 111-113: no chunk file; the chapter yields None.
PCNoChunkFiles ==
    /\ pipe.pc = "chunk_loop"
    /\ pipe.c_idx = Len(pipe.chunks)
    /\ pipe.chunk_files = <<>>
    /\ pipe' = [pipe EXCEPT !.pc = "chapter_loop", !.i = @ + 1,
                            !.log = Append(@, LogEntry(pipe.i, "no_chunks"))]
    /\ UNCHANGED <<textVars, fs, gen, comb, conv, hist>>

\* Lines 115-117: combine is called on the chunk files.
PCCombine ==
    /\ pipe.pc = "chunk_loop"
    /\ pipe.c_idx = Len(pipe.chunks)
    /\ pipe.chunk_files # <<>>
    /\ comb' = CombCall(pipe.chunk_files, MasterPath(pipe.i), "pipeline")
    /\ pipe' = [pipe EXCEPT !.pc = "combining"]
    /\ UNCHANGED <<textVars, fs, gen, conv, hist>>

\* The failure of combine is swallowed and the converter called anyway.
PCCombineFailed_ConvertAnyway ==
    /\ pipe.pc = "combining"
    /\ comb.pc = "raised"
    /\ comb' = [pc |-> "idle"]
    /\ conv' = ConvCall(pipe.format, MasterPath(pipe.i), FinalPath(pipe.i))
    /\ pipe' = [pipe EXCEPT !.pc = "converting"]
    /\ UNCHANGED <<textVars, fs, gen, hist>>

\* Lines 117, 61-64: combine raised; the chapter is logged and left.
PCCombineFailed ==
    /\ pipe.pc = "combining"
    /\ comb.pc = "raised"
    /\ comb' = [pc |-> "idle"]
    /\ pipe' = [pipe EXCEPT !.pc = "chapter_loop", !.i = @ + 1,
                            !.log = Append(@, LogEntry(pipe.i, "failed"))]
    /\ UNCHANGED <<textVars, fs, gen, conv, hist>>

\* Lines 119-128: combine returned; the converter is called on the master.
PCConvert ==
    /\ pipe.pc = "combining"
    /\ comb.pc = "returned"
    /\ comb' = [pc |-> "idle"]
    /\ conv' = ConvCall(pipe.format, MasterPath(pipe.i), FinalPath(pipe.i))
    /\ pipe' = [pipe EXCEPT !.pc = "converting"]
    /\ UNCHANGED <<textVars, fs, gen, hist>>

\* The converter's error is let through instead of being caught per chapter.
PCConvertFailed_Abort ==
    /\ pipe.pc = "converting"
    /\ conv.pc = "raised"
    /\ conv' = [pc |-> "idle"]
    /\ fs' = {p \in fs : ~InWorkspace(p)}
    /\ pipe' = [pipe EXCEPT !.pc = "crashed", !.error = conv.result]
    /\ UNCHANGED <<textVars, gen, comb, hist>>

\* Lines 126-128, 61-64: the converter raised; the chapter is logged and left.
PCConvertFailed ==
    /\ pipe.pc = "converting"
    /\ conv.pc = "raised"
    /\ conv' = [pc |-> "idle"]
    /\ pipe' = [pipe EXCEPT !.pc = "chapter_loop", !.i = @ + 1,
                            !.log = Append(@, LogEntry(pipe.i, "failed"))]
    /\ UNCHANGED <<textVars, fs, gen, comb, hist>>

\* Lines 130, 59-60: the chapter's final path is returned and recorded.
PCChapterDone ==
    /\ pipe.pc = "converting"
    /\ conv.pc = "returned"
    /\ conv' = [pc |-> "idle"]
    /\ pipe' = [pipe EXCEPT !.pc = "chapter_loop", !.i = @ + 1,
                            !.final_files = Append(@, FinalPath(pipe.i))]
    /\ UNCHANGED <<textVars, fs, gen, comb, hist>>

\* final_files is returned with the workspace left in place.
PDReturn_KeepWorkspace ==
    /\ pipe.pc = "chapter_loop"
    /\ pipe.i > Len(pipe.units)
    /\ pipe' = [pipe EXCEPT !.pc = "returned"]
    /\ UNCHANGED <<textVars, fs, gen, comb, conv, hist>>

\* Lines 48, 77-78: the with block ends, the workspace is removed,
\* final_files is returned.
PDReturn ==
    /\ pipe.pc = "chapter_loop"
    /\ pipe.i > Len(pipe.units)
    /\ fs' = {p \in fs : ~InWorkspace(p)}
    /\ pipe' = [pipe EXCEPT !.pc = "returned"]
    /\ UNCHANGED <<textVars, gen, comb, conv, hist>>

\* Lines 48, 57-64: KeyboardInterrupt (a BaseException) inside the with
\* block is not caught by `except Exception`; subprocess.run kills the
\* running child, to_m4b's finally and the TemporaryDirectory clean up, and
\* the interrupt escapes process_document.
PDInterrupted ==
    /\ pipe.pc \in {"chapter_loop", "chunk_loop", "generating", "combining", "converting"}
    /\ fs' = {p \in fs : ~InWorkspace(p)}
                \ (IF conv.pc \in {"manifest_written", "ffmpeg_running"}
                      /\ conv.format = "m4b"
                   THEN {ManifestPath} ELSE {})
    /\ gen' = [voice |-> gen.voice, rate |-> gen.rate, pc |-> "idle"]
    /\ comb' = [pc |-> "idle"]
    /\ conv' = [pc |-> "idle"]
    /\ pipe' = [pipe EXCEPT !.pc = "crashed", !.error = "KeyboardInterrupt"]
    /\ UNCHANGED <<textVars, hist>>

GeneratorNext ==
    \/ GenSkipEmpty
    \/ GenSayStart
    \/ GenSayNotFound
    \/ EngineTick
    \/ SayWritesOutput
    \/ SayExitsZero
    \/ SayExitsNonZero
    \/ GenEdgeStart
    \/ GenEdgeNotFound
    \/ EdgeWritesMp3
    \/ EdgeExitsZero
    \/ EdgeExitsNonZero
    \/ FfmpegWritesOutput
    \/ FfmpegExitsZero
    \/ FfmpegExitsNonZero

CombinerNext ==
    \/ CombRejectEmpty
    \/ CombSoxStart
    \/ CombSoxNotFound
    \/ SoxWritesOutput
    \/ SoxExitsZero
    \/ SoxExitsNonZero

ConverterNext ==
    \/ ConvMp3Start
    \/ ConvMp3NotFound
    \/ ConvM4bWriteManifest
    \/ ConvM4bManifestFails
    \/ ConvM4bStart
    \/ ConvM4bNotFound
    \/ ConvFfmpegWritesOutput
    \/ ConvFfmpegExitsZero
    \/ ConvFfmpegExitsNonZero

OrchestratorNext ==
    \/ PDCreateTempDir
    \/ PDTempDirFails
    \/ PCSkipChapter
    \/ PCEnterChapter
    \/ PCGenerate
    \/ PCAfterGenerate
    \/ PCNoChunkFiles
    \/ PCCombine
    \/ PCCombineFailed
    \/ PCConvert
    \/ PCConvertFailed
    \/ PCChapterDone
    \/ PDReturn
    \/ PDInterrupted

(***************************************************************************)
(* The stages called directly, as the unit tests call them: one call of    *)
(* generate_chunk or of combine, with any argument.                        *)
(***************************************************************************)
\* Texts given to generate_chunk: empty, whitespace only, speakable.
StageTexts == {<<>>, <<" ">>, <<" ", "\n">>, <<"H", "i", ".">>}

\* Input lists given to combine: empty, one file, several in any order.
StageInputs == SeqsUpTo({ChunkPath(0, 0), ChunkPath(0, 1)}, 2)

\* Speed multipliers given to AudioGenerator, in hundredths: 0.01 .. MaxRate/100.
MaxRate == 120

StageRates == 1..MaxRate

InitStage ==
    /\ det = DetIdle
    /\ chunker = ChunkerIdle
    /\ conv = [pc |-> "idle"]
    /\ pipe = [pc |-> "idle"]
    /\ hist = [engine_ok |-> {}, returned |-> {}, called |-> {}]
    /\ \/ /\ \E v \in Voices, r \in StageRates, t \in StageTexts :
                gen = GenCall([voice |-> v, rate |-> r], t,
                              ChunkPath(0, 0), "direct")
          /\ comb = [pc |-> "idle"]
          /\ fs = {}
       \/ /\ \E v \in Voices :
                gen = [voice |-> v, rate |-> DefaultRate, pc |-> "idle"]
          /\ \E ins \in StageInputs : comb = CombCall(ins, MasterPath(0), "direct")
          /\ fs \in SUBSET {ChunkPath(0, 0), ChunkPath(0, 1)}

NextStage ==
    \/ GeneratorNext
    \/ CombinerNext

SpecStage == InitStage /\ [][NextStage]_vars

(***************************************************************************)
(* One run of process_document on a parsed document.                       *)
(***************************************************************************)
MaxChapters == 2

Title == <<"T">>

DocTitle == <<"D">>

\* Chapter contents: empty, blank, one paragraph, two paragraphs.
PipeContents == {<<>>, <<" ">>, <<"a", ".">>, <<"a", "\n", "\n", "b">>}

\* Chapter lists as a parser hands them over: numbered 1..N.
PipeChapterLists ==
    {[k \in 1..Len(cs) |-> ParsedChapter(Title, cs[k], k)] :
        cs \in SeqsUpTo(PipeContents, MaxChapters)}

PipeDocuments ==
    {ParsedDocument(DocTitle, <<"z">>, chs) : chs \in PipeChapterLists \ {<<>>}}
    \cup {ParsedDocument(DocTitle, c, <<>>) : c \in PipeContents}

Formats == {"mp3", "m4b"}

\* AudioPipeline.__init__'s default voice: the runs use the `say` engine;
\* the edge-tts branch of generate_chunk is exercised by the direct calls.
PipelineVoice == "Alex"

InitPipeline ==
    /\ det = DetIdle
    /\ chunker = ChunkerIdle
    /\ fs = {OutputDir}
    /\ gen = [voice |-> PipelineVoice, rate |-> DefaultRate, pc |-> "idle"]
    /\ comb = [pc |-> "idle"]
    /\ conv = [pc |-> "idle"]
    /\ \E d \in PipeDocuments, f \in Formats : pipe = PipeEntry(d, f)
    /\ hist = [engine_ok |-> {}, returned |-> {}, called |-> {}]

NextPipeline ==
    \/ OrchestratorNext
    \/ GenSayStart
    \/ GenSayNotFound
    \/ SayWritesOutput
    \/ SayExitsZero
    \/ SayExitsNonZero
    \/ CombSoxStart
    \/ CombSoxNotFound
    \/ SoxWritesOutput
    \/ SoxExitsZero
    \/ SoxExitsNonZero
    \/ ConverterNext

SpecPipeline == InitPipeline /\ [][NextPipeline]_vars

\* Whether the pipeline is inside the chunk loop or the combination of a chapter.
InChapterSynthesis == pipe.pc \in {"chunk_loop", "generating", "combining"}

(* C8: a chunk is counted as a fragment, and handed to combination, only if
   its output file exists at the destination path after the engine call. *)
C8_FragmentsExist ==
    /\ InChapterSynthesis =>
            \A k \in 1..Len(pipe.chunk_files) : pipe.chunk_files[k] \in fs
    /\ (comb.pc # "idle" /\ comb.caller = "pipeline") =>
            \A k \in 1..Len(comb.input_files) : comb.input_files[k] \in fs

\* generate_chunk returned for the first chunk without a file at its path,
\* and the chunk was not counted.
C8_Witness ==
    /\ pipe.pc = "chunk_loop"
    /\ pipe.c_idx = 1
    /\ ChunkPath(pipe.i, 0) \in hist.returned
    /\ ChunkPath(pipe.i, 0) \notin fs
    /\ pipe.chunk_files = <<>>

\* The chunk paths of chapter ch in S, by increasing chunk index.
RECURSIVE AscendingFrom(_, _, _, _)
AscendingFrom(S, ch, idx, n) ==
    IF idx >= n THEN <<>>
    ELSE (IF ChunkPath(ch, idx) \in S THEN <<ChunkPath(ch, idx)>> ELSE <<>>)
         \o AscendingFrom(S, ch, idx + 1, n)

(* C10: the inputs given to the concatenation tool for a chapter are exactly
   the fragments of its successfully synthesized chunks, by increasing
   chunk index. *)
C10_SoxInputsInChunkOrder ==
    (comb.pc # "idle" /\ comb.caller = "pipeline" /\ comb.sox_calls > 0) =>
        comb.sox_args = AscendingFrom(hist.engine_ok, pipe.i, 0, Len(pipe.chunks))

\* sox runs on both fragments of a two-chunk chapter.
C10_Witness ==
    /\ comb.pc = "sox_running"
    /\ comb.caller = "pipeline"
    /\ comb.sox_args = <<ChunkPath(pipe.i, 0), ChunkPath(pipe.i, 1)>>

(* C5: when the speech engine does not finish within the per-call timeout,
   generate_chunk terminates the engine process (removes the partial file
   and re-invokes the engine): no engine process of a call is still
   running past the timeout. *)
C5_EngineStoppedAtTimeout ==
    gen.pc \in {"say_running", "edge_running"} => gen.elapsed <= TimeoutTicks

(* C6: a call of generate_chunk that fails because the speech engine exited
   with a non-zero status has invoked the engine exactly once. *)
C6_NonZeroExitNotRetried ==
    (gen.pc = "raised" /\ gen.result = "RuntimeError_exit") => gen.engine_calls = 1

\* `say` exited non-zero and the call raised.
C6_Witness ==
    /\ gen.pc = "raised"
    /\ gen.result = "RuntimeError_exit"
    /\ ~IsEdgeVoice(gen.voice)
    /\ gen.engine_calls = 1

(* C7: generate_chunk with empty or whitespace-only text starts no engine
   process, writes nothing, and returns (the path, as its skip result). *)
C7_BlankTextSkipsEngine ==
    (gen.pc # "idle" /\ gen.caller = "direct" /\ Strip(gen.text) = <<>>) =>
        /\ gen.engine_calls = 0
        /\ ~GenRunning
        /\ fs = {}
        /\ gen.pc \in {"entry", "returned"}

\* A whitespace-only text was given and the call has returned.
C7_Witness ==
    /\ gen.pc = "returned"
    /\ gen.text = <<" ", "\n">>
    /\ gen.result = "output_file"
    /\ gen.engine_calls = 0

(* C9: combine with an empty input list raises without invoking sox and
   without creating anything; with exactly one input it invokes sox exactly
   once, on that input. *)
C9_EmptyRejectedSingleStillCombined ==
    /\ (comb.pc # "idle" /\ comb.caller = "direct" /\ comb.input_files = <<>>) =>
            /\ comb.sox_calls = 0
            /\ comb.pc \in {"entry", "raised"}
            /\ comb.pc = "raised" => comb.result = "ValueError"
            /\ comb.output_file \notin fs
            /\ Parent(comb.output_file) \notin fs
    /\ (comb.pc = "returned" /\ comb.caller = "direct" /\ Len(comb.input_files) = 1) =>
            /\ comb.sox_calls = 1
            /\ comb.sox_args = comb.input_files

\* combine([f]) returned after sox ran and wrote the output.
C9_Witness ==
    /\ comb.pc = "returned"
    /\ Len(comb.input_files) = 1
    /\ comb.sox_calls = 1
    /\ comb.output_file \in fs

\* The chapter indexes the logger holds a record `what` about.
LoggedAs(what) ==
    {pipe.log[k].index : k \in {j \in 1..Len(pipe.log) : pipe.log[j].what = what}}

\* The chapters that did not yield a file: empty, without chunks, or failed.
Logged == LoggedAs("empty") \cup LoggedAs("no_chunks") \cup LoggedAs("failed")

\* The final paths of the chapters from..n outside S, by increasing index.
RECURSIVE FinalsExcept(_, _, _)
FinalsExcept(S, from, n) ==
    IF from > n THEN <<>>
    ELSE (IF from \in S THEN <<>> ELSE <<FinalPath(from)>>)
         \o FinalsExcept(S, from + 1, n)

(* C11: a chapter's failure at any stage does not abort process_document:
   no stage error escapes the run, and when the run returns every chapter
   has been processed, the returned list holding exactly the final files of
   the chapters that did not fail or yield nothing, in chapter order. *)
C11_ChapterFailureIsolated ==
    /\ pipe.pc = "crashed" => pipe.error \in {"OSError", "KeyboardInterrupt"}
    /\ pipe.pc = "returned" =>
            /\ pipe.i = Len(pipe.units) + 1
            /\ Logged \subseteq 1..Len(pipe.units)
            /\ pipe.final_files = FinalsExcept(Logged, 1, Len(pipe.units))

\* The first chapter failed in combination or conversion, the second one
\* was still processed and its file is the one returned.
C11_Witness ==
    /\ pipe.pc = "returned"
    /\ Len(pipe.units) = 2
    /\ LoggedAs("failed") = {1}
    /\ pipe.final_files = <<FinalPath(2)>>

\* The chunk paths of the chapter being processed.
ChunkPathsOfChapter == {ChunkPath(pipe.i, k) : k \in 0..(Len(pipe.chunks) - 1)}

(* C12: a chunk that fails does not stop the synthesis of the chunks after
   it, and a chapter with at least one synthesized chunk goes on to
   combination, on successful fragments only, and to conversion into its
   final file: past the chunk loop generate_chunk has been called for every
   chunk, and the chapter is given up for lack of fragments only if no
   chunk's file was produced. *)
C12_PartialChapterProceeds ==
    /\ (pipe.pc = "chunk_loop" /\ pipe.c_idx = Len(pipe.chunks)) =>
            /\ hist.called = ChunkPathsOfChapter
            /\ (hist.engine_ok # {}) => pipe.chunk_files # <<>>
    /\ pipe.pc = "combining" =>
            /\ hist.called = ChunkPathsOfChapter
            /\ comb.input_files # <<>>
            /\ \A k \in 1..Len(comb.input_files) :
                    comb.input_files[k] \in hist.engine_ok
            /\ comb.output_file = MasterPath(pipe.i)
    /\ pipe.pc = "converting" =>
            /\ conv.input_file = MasterPath(pipe.i)
            /\ conv.output_file = FinalPath(pipe.i)

\* The first chunk of a two-chunk chapter failed, the second was synthesized,
\* and the chapter's final file has been written and returned by the converter.
C12_Witness ==
    /\ pipe.pc = "converting"
    /\ conv.pc = "returned"
    /\ FinalPath(pipe.i) \in fs
    /\ Len(pipe.chunks) = 2
    /\ hist.engine_ok = {ChunkPath(pipe.i, 1)}
    /\ ChunkPath(pipe.i, 0) \notin hist.returned

\* Line 78: what process_document returns, the list of the final paths.
Outcome == pipe.final_files

\* The positions of the outcome that report chapter index as `kind`.
OutcomeEntries(kind, index) ==
    {k \in 1..Len(Outcome) : Outcome[k].kind = kind /\ Outcome[k].ch = index}

\* The chapters with a final file among those whose chunks did not all
\* yield a fragment (known for the chapter synthesized last).
PartialChapters ==
    {p.ch : p \in hist.called \ hist.engine_ok}
        \cap {Outcome[k].ch : k \in 1..Len(Outcome)}

(* C13: the outcome returned by process_document holds a failure entry for
   every chapter that produced no audio, and reports as partially failed a
   chapter produced from only part of its chunks. *)
C13_OutcomeReportsFailures ==
    pipe.pc = "returned" =>
        /\ \A i \in LoggedAs("no_chunks") \cup LoggedAs("failed") :
                OutcomeEntries("failure", i) # {}
        /\ \A i \in PartialChapters : OutcomeEntries("partial", i) # {}

(* C14: when process_document has ended, by returning or by an exception
   escaping it, neither the temporary workspace directory nor any chapter
   directory, fragment or master track in it exists. *)
C14_WorkspaceRemoved ==
    pipe.pc \in {"returned", "crashed"} => \A p \in fs : ~InWorkspace(p)

\* The run returned after one chapter failed past synthesis and fragments
\* had been written for the chapter synthesized last.
C14_Witness ==
    /\ pipe.pc = "returned"
    /\ hist.engine_ok # {}
    /\ LoggedAs("failed") # {}
    /\ \A p \in fs : ~InWorkspace(p)

(***************************************************************************)
(* The name of a chapter's final file (_process_chapter, lines 120-123),   *)
(* computed for any index, title and format.                               *)
(***************************************************************************)
MaxTitleLen == 3

MaxIndex == 11

DigitChar(d) == <<"0","1","2","3","4","5","6","7","8","9">>[d + 1]

\* str(n) for n >= 0
RECURSIVE Decimal(_)
Decimal(n) ==
    IF n < 10 THEN <<DigitChar(n)>>
    ELSE Decimal(n \div 10) \o <<DigitChar(n % 10)>>

\* The format spec 0{width}d: zeros are put in front up to the width.
RECURSIVE ZeroFill(_, _)
ZeroFill(s, width) ==
    IF Len(s) >= width THEN s ELSE ZeroFill(<<"0">> \o s, width)

\* str.isalnum() of one character
IsAlnum(c) == c \in UpperLetters \cup LowerLetters \cup Digits

\* The title filtered without the final strip().
SafeTitle_NoStrip(title) ==
    SelectSeq(title, LAMBDA c : IsAlnum(c) \/ c \in {" ", "-", "_"})

\* Line 121: "".join(c for c in title if c.isalnum() or c in (' ','-','_')).strip()
RECURSIVE KeepSafe(_)
KeepSafe(title) ==
    IF title = <<>> THEN <<>>
    ELSE (IF IsAlnum(Head(title)) \/ Head(title) \in {" ", "-", "_"}
          THEN <<Head(title)>> ELSE <<>>) \o KeepSafe(Tail(title))

SafeTitle(title) == Strip(KeepSafe(title))

\* Line 122: f"{index:02d} - {safe_title}.{self.format}"
Filename(index, title, format) ==
    ZeroFill(Decimal(index), 2) \o <<" ", "-", " ">> \o SafeTitle(title)
        \o <<".">> \o format

\* Characters of the titles: a letter, a digit, the kept punctuation and
\* a character the sanitizing drops.
TitleAlphabet == {"A", "1", " ", "-", "?"}

TitleChapter1 == <<"C","h","a","p","t","e","r"," ","1">>

TitleChapter2 == <<"C","h","a","p","t","e","r"," ","2">>

\* Titles as the parsers hand them over: stripped lines.
NamingTitles ==
    {t \in SeqsUpTo(TitleAlphabet, MaxTitleLen) : Strip(t) = t}
        \cup {TitleChapter1, TitleChapter2}

\* self.format, lower-cased by __init__
NamingFormats == {<<"m","p","3">>, <<"m","4","b">>}

\* _process_chapter computes the final file's name.
NameFinalFile ==
    /\ pipe.pc = "naming"
    /\ pipe' = [pipe EXCEPT
            !.pc = "named",
            !.filename = Filename(pipe.index, pipe.title, pipe.format)]
    /\ UNCHANGED <<textVars, fs, gen, comb, conv, hist>>

InitNaming ==
    /\ det = DetIdle
    /\ chunker = ChunkerIdle
    /\ fs = {OutputDir}
    /\ gen = [pc |-> "idle"]
    /\ comb = [pc |-> "idle"]
    /\ conv = [pc |-> "idle"]
    /\ hist = [engine_ok |-> {}, returned |-> {}, called |-> {}]
    /\ \E index \in 1..MaxIndex, title \in NamingTitles, format \in NamingFormats :
            pipe = [pc |-> "naming", index |-> index, title |-> title,
                    format |-> format, filename |-> <<>>]

NextNaming == NameFinalFile

SpecNaming == InitNaming /\ [][NextNaming]_vars

\* A number below 100 written with two digits.
TwoDigits(n) == <<DigitChar(n \div 10), DigitChar(n % 10)>>

\* The characters a file name keeps of a title.
NameChars == UpperLetters \cup LowerLetters \cup Digits \cup {" ", "-", "_"}

\* s without its leading and trailing spaces.
Trimmed(s) ==
    LET inked == {k \in 1..Len(s) : s[k] # " "}
    IN  IF inked = {} THEN <<>>
        ELSE SubSeq(s, CHOOSE a \in inked : \A k \in inked : a <= k,
                       CHOOSE b \in inked : \A k \in inked : b >= k)

(* C15 as stated: the final file's name is the chapter number zero-padded
   to two digits, " - ", the title reduced to its alphanumeric, space,
   hyphen and underscore characters, ".", and the target format. *)
C15_NameAsStated ==
    pipe.pc = "named" =>
        pipe.filename = TwoDigits(pipe.index) \o <<" ", "-", " ">>
                            \o SelectSeq(pipe.title, LAMBDA c : c \in NameChars)
                            \o <<".">> \o pipe.format

(* C15, amended: the final file's name is the chapter number zero-padded to
   two digits, " - ", the title reduced to its alphanumeric, space, hyphen
   and underscore characters and then stripped of the leading and trailing
   spaces left, ".", and the target format; "Chapter 1" and "Chapter 2"
   with format mp3 give "01 - Chapter 1.mp3" and "02 - Chapter 2.mp3". *)
C15_NameOfFinalFile ==
    pipe.pc = "named" =>
        /\ pipe.filename = TwoDigits(pipe.index) \o <<" ", "-", " ">>
                \o Trimmed(SelectSeq(pipe.title, LAMBDA c : c \in NameChars))
                \o <<".">> \o pipe.format
        /\ (pipe.index = 1 /\ pipe.title = TitleChapter1
                /\ pipe.format = <<"m","p","3">>) =>
              pipe.filename = <<"0","1"," ","-"," ","C","h","a","p","t","e","r",
                                " ","1",".","m","p","3">>
        /\ (pipe.index = 2 /\ pipe.title = TitleChapter2
                /\ pipe.format = <<"m","p","3">>) =>
              pipe.filename = <<"0","2"," ","-"," ","C","h","a","p","t","e","r",
                                " ","2",".","m","p","3">>

\* A title whose dropped character leaves a space at its end has been named.
C15_Witness ==
    /\ pipe.pc = "named"
    /\ pipe.title = <<"A", " ", "?">>
    /\ pipe.index = 10
    /\ pipe.filename = <<"1","0"," ","-"," ","A",".","m","4","b">>

\* self.format as characters
FormatChars(format) ==
    IF format = "m4b" THEN <<"m","4","b">> ELSE <<"m","p","3">>

(* C16: a document without chapters is processed as exactly one unit,
   numbered 1 and titled with the document title, made of the whole content,
   and yields at most one final file, named "01 - <title>.<format>"; a
   document with chapters is processed chapter by chapter and its content
   field is never synthesized. *)
C16_UnitsOfWork ==
    /\ pipe.document.chapters = <<>> =>
            /\ pipe.units = <<[title |-> pipe.document.title,
                               content |-> pipe.document.content,
                               number |-> 1]>>
            /\ gen.pc # "idle" =>
                    gen.text \in RangeOf(ChunkText(pipe.document.content, DefaultMaxChars))
            /\ conv.pc # "idle" => conv.output_file = FinalPath(1)
            /\ pipe.final_files \in {<<>>, <<FinalPath(1)>>}
            /\ Filename(1, pipe.units[1].title, FormatChars(pipe.format))
                    = <<"0", "1", " ", "-", " ">> \o pipe.document.title
                        \o <<".">> \o FormatChars(pipe.format)
    /\ pipe.document.chapters # <<>> =>
            /\ pipe.units = pipe.document.chapters
            /\ gen.pc # "idle" =>
                    /\ gen.text \in RangeOf(ChunkText(
                            pipe.document.chapters[pipe.i].content, DefaultMaxChars))
                    /\ gen.text \notin RangeOf(ChunkText(
                            pipe.document.content, DefaultMaxChars))

\* A document without chapters was processed and its one file returned.
C16_Witness ==
    /\ pipe.pc = "returned"
    /\ pipe.document.chapters = <<>>
    /\ pipe.document.content = <<"a", "\n", "\n", "b">>
    /\ pipe.final_files = <<FinalPath(1)>>
    /\ FinalPath(1) \in fs

\* The indexes of the document's units whose content is empty or whitespace.
BlankChapters ==
    {i \in 1..Len(UnitsOf(pipe.document)) :
        Strip(UnitsOf(pipe.document)[i].content) = <<>>}

(* C17: for a chapter whose content is empty or whitespace-only no synthesis,
   combination or conversion call is made and no file is produced, and the
   chapters after it are processed under their own numbers. *)
C17_BlankChapterSkipped ==
    /\ gen.pc # "idle" =>
            /\ gen.output_file.ch \notin BlankChapters
            /\ gen.text \in RangeOf(ChunkText(
                    UnitsOf(pipe.document)[gen.output_file.ch].content,
                    DefaultMaxChars))
    /\ comb.pc # "idle" => comb.output_file.ch \notin BlankChapters
    /\ conv.pc # "idle" => conv.output_file.ch \notin BlankChapters
    /\ \A p \in fs : p.ch \notin BlankChapters
    /\ \A k \in 1..Len(pipe.final_files) : pipe.final_files[k].ch \notin BlankChapters
    /\ pipe.pc = "returned" => BlankChapters \subseteq LoggedAs("empty")

\* The first chapter was blank and skipped; the second was processed and
\* its file carries the number 2.
C17_Witness ==
    /\ pipe.pc = "returned"
    /\ Len(pipe.document.chapters) = 2
    /\ BlankChapters = {1}
    /\ LoggedAs("empty") = {1}
    /\ pipe.final_files = <<FinalPath(2)>>
    /\ FinalPath(2) \in fs

\* A document with no chapters and no content at all.
EmptyDocument ==
    /\ pipe.document.chapters = <<>>
    /\ pipe.document.content = <<>>

(* C18: process_document is aborted with an error only when the temporary
   workspace cannot be created or when the document has no chapters and no
   content at all, and such an empty document makes the run fail with a
   validation error instead of returning a normal (empty) outcome. *)
C18_OnlyFatalCases ==
    /\ (pipe.pc = "crashed" /\ pipe.error # "KeyboardInterrupt") =>
            \/ pipe.error = "OSError"
            \/ EmptyDocument /\ pipe.error = "ValueError"
    /\ pipe.pc = "returned" => ~EmptyDocument

(* C19: on every exit path of to_m4b once it has started to build the
   manifest (tool succeeds, tool exits non-zero, tool missing, or writing
   the manifest fails), the manifest file no longer exists when the call
   returns or raises. *)
C19_ManifestRemoved ==
    (conv.pc \in {"returned", "raised"} /\ conv.format = "m4b") =>
        ManifestPath \notin fs

(* C20: when the transcoding tool fails while converting a chapter (to_mp3
   or to_m4b), the failure is reported and no file, partial or complete,
   exists at the chapter's final output path afterwards. *)
C20_NoPartialFinalFile ==
    /\ conv.pc = "raised" => conv.output_file \notin fs
    /\ \A i \in LoggedAs("failed") : FinalPath(i) \notin fs

(* C21: for every speed multiplier r the words-per-minute value passed to
   the speech engine is round(180 * r), the integer nearest to 180 * r
   (216 for r = 1.2). *)
C21_WpmIsRounded ==
    (gen.pc = "say_running" /\ gen.caller = "direct") =>
        gen.wpm = Wpm_Rounded(gen.rate)

(***************************************************************************)
(* _is_chapter_header applied to one trimmed line of any length.           *)
(***************************************************************************)
MaxHeaderLen == 51

\* n times the character c
Fill(c, n) == [k \in 1..n |-> c]

\* Characters of the classified lines: upper and lower ASCII letters, a
\* digit, punctuation, and an upper-case letter outside ASCII.
HeaderAlphabet == {"A", "b", "1", "-", "U+0416"}

\* Beginnings of lines, one set per explicit rule, in several cases.
ChapterNumberHeads ==
    {<<"C", "h", "a", "p", "t", "e", "r", " ", "7">>,
     <<"c", "h", "a", "p", "t", "e", "r", " ", "i", "v">>,
     <<"C", "H", "A", "P", "T", "E", "R", " ", "X">>}

ChapterWordHeads ==
    {<<"C", "h", "a", "p", "t", "e", "r", " ", "O", "n", "e">>,
     <<"c", "h", "a", "p", "t", "e", "r", " ", "o", "n", "e">>,
     <<"C", "H", "A", "P", "T", "E", "R", " ", "T", "w", "o">>}

NumberedHeads ==
    {<<"2", ".", " ", "T", "w", "o">>,
     <<"1", "0", ".", " ", " ", "x">>}

RomanHeads ==
    {<<"i", "v", ".", " ", "x">>,
     <<"X", ".", " ", "Y">>}

\* What follows the beginning: nothing, more of the word, other text.
WordTails == {<<>>, <<"s">>}

OtherTails ==
    {<<" ", "m", "o", "r", "e">>,
     <<":">>,
     <<" ", "-", " ", "?">>}

PatternLines ==
    {h \o t : h \in ChapterNumberHeads \cup ChapterWordHeads
                        \cup NumberedHeads \cup RomanHeads,
              t \in WordTails \cup OtherTails}

\* Trimmed, non-empty lines of every length up to MaxHeaderLen, the lines
\* built for the explicit rules, and the trimmed lines of the detector's texts.
HeaderLines ==
    {Fill(c, n - 1) \o <<d>> : c \in HeaderAlphabet, d \in HeaderAlphabet,
                                n \in 1..MaxHeaderLen}
        \cup PatternLines
        \cup {Strip(l) : l \in LinePool \ {<<>>, <<" ">>}}

\* _is_chapter_header(line) returns.
ClassifyLine ==
    /\ det.pc = "classify"
    /\ det' = [det EXCEPT !.pc = "classified",
                          !.is_header = IsChapterHeader(det.line)]
    /\ UNCHANGED <<chunker, audioVars>>

InitHeader ==
    /\ \E l \in HeaderLines :
            det = [pc |-> "classify", line |-> l, is_header |-> FALSE]
    /\ chunker = ChunkerIdle
    /\ AudioIdle

NextHeader == ClassifyLine

SpecHeader == InitHeader /\ [][NextHeader]_vars

\* Letters of any script.
AnyUpper == UpperLetters \cup NonAsciiUpper

AnyLower == LowerLetters \cup NonAsciiLower

(* C22: a non-empty trimmed line matching none of the four explicit patterns
   is classified as a heading if and only if the entire line is upper-case,
   it contains at least one alphabetic character, and its length is strictly
   between 3 and 50. *)
C22_AllCapsHeuristic ==
    (det.pc = "classified" /\ ~MatchesChapterPattern(det.line)) =>
        (det.is_header <=>
            /\ \A k \in 1..Len(det.line) : det.line[k] \notin AnyLower
            /\ \E k \in 1..Len(det.line) : det.line[k] \in AnyUpper \cup AnyLower
            /\ 3 < Len(det.line)
            /\ Len(det.line) < 50)

\* Whether line begins with head.
BeginsWith(line, head) ==
    /\ Len(line) >= Len(head)
    /\ SubSeq(line, 1, Len(head)) = head

(* C23 as stated: every line that begins with "chapter", whitespace and a
   word is a heading whatever follows the word, like the lines beginning
   with "chapter <number>", "<number>. <word>" or "<roman>. <word>". *)
C23_HeadingWhateverFollows ==
    det.pc = "classified" =>
        \A h \in ChapterNumberHeads \cup ChapterWordHeads
                    \cup NumberedHeads \cup RomanHeads :
            BeginsWith(det.line, h) => det.is_header

(* C23, amended: the explicit rules are matched at line start and
   case-insensitively; a line beginning with "chapter <number>",
   "<number>. <word>" or "<roman-numeral>. <word>" is a heading whatever
   text follows, while a line beginning with "chapter", whitespace and a
   word is a heading by that rule only if the line ends with that word:
   followed by other text it is not a heading (unless another rule holds). *)
C23_ExplicitRules ==
    det.pc = "classified" =>
        /\ \A h \in ChapterNumberHeads \cup NumberedHeads \cup RomanHeads :
                BeginsWith(det.line, h) => det.is_header
        /\ \A h \in ChapterWordHeads, t \in WordTails :
                det.line = h \o t => det.is_header
        /\ \A h \in ChapterWordHeads, t \in OtherTails :
                det.line = h \o t => ~det.is_header

\* "2. Two more" has been classified as a heading.
C23_Witness ==
    /\ det.pc = "classified"
    /\ det.line = <<"2", ".", " ", "T", "w", "o", " ", "m", "o", "r", "e">>
    /\ det.is_header

\* The positions of the heading lines of the text given to the detector.
HeaderIdx == {j \in 1..Len(det.lines) : IsChapterHeader(Strip(det.lines[j]))}

\* The position of the first heading after line j, or one past the last line.
NextHeaderAfter(j) ==
    IF \E h \in HeaderIdx : h > j
    THEN CHOOSE h \in HeaderIdx : h > j /\ \A g \in HeaderIdx : g > j => h <= g
    ELSE Len(det.lines) + 1

\* The trimmed text of the lines after line j up to the next heading (j = 0:
\* the lines before the first heading).
BodyAfter(j) == Strip(Join(SubSeq(det.lines, j + 1, NextHeaderAfter(j) - 1), Newline))

(* C24: each chapter's title is the trimmed text of the heading line that
   most recently precedes its content, and a first chapter titled
   "Introduction" is emitted if and only if the text has at least one
   heading and the lines before the first heading are not all blank. *)
C24_TitlesAndIntroduction ==
    det.pc = "done" =>
        /\ (det.chapters # <<>> /\ det.chapters[1].title = Introduction)
                <=> (HeaderIdx # {} /\ BodyAfter(0) # <<>>)
        /\ \A k \in 1..Len(det.chapters) :
                \/ /\ k = 1
                   /\ det.chapters[k].title = Introduction
                   /\ det.chapters[k].content = BodyAfter(0)
                \/ \E j \in HeaderIdx :
                        /\ det.chapters[k].title = Strip(det.lines[j])
                        /\ det.chapters[k].content = BodyAfter(j)

\* An introduction and a titled chapter were returned.
C24_Witness ==
    /\ det.pc = "done"
    /\ Len(det.chapters) = 2
    /\ det.chapters[1].title = Introduction
    /\ det.chapters[2].title = <<"T", "H", "E", " ", "E", "N", "D">>
    /\ det.chapters[2].content = <<"t", "e", "x", "t">>

\* The trimmed non-blank lines of ls that are not headings, in order.
RECURSIVE BodyLinesOf(_)
BodyLinesOf(ls) ==
    IF ls = <<>> THEN <<>>
    ELSE (IF Strip(Head(ls)) # <<>> /\ ~IsChapterHeader(Strip(Head(ls)))
          THEN <<Strip(Head(ls))>> ELSE <<>>) \o BodyLinesOf(Tail(ls))

\* The trimmed non-blank lines of ls, in order.
RECURSIVE NonBlankLinesOf(_)
NonBlankLinesOf(ls) ==
    IF ls = <<>> THEN <<>>
    ELSE (IF Strip(Head(ls)) # <<>> THEN <<Strip(Head(ls))>> ELSE <<>>)
         \o NonBlankLinesOf(Tail(ls))

\* The lines of the contents of the chapters from position k on, in order.
RECURSIVE ContentLinesFrom(_, _)
ContentLinesFrom(chapters, k) ==
    IF k > Len(chapters) THEN <<>>
    ELSE NonBlankLinesOf(Split(chapters[k].content, Newline))
         \o ContentLinesFrom(chapters, k + 1)

(* C25: for a text with at least one heading, the non-blank lines that are
   not headings are, in their input order, exactly the lines of the contents
   of the returned chapters taken in order: none lost, none twice, and no
   heading line inside a content. *)
C25_NoBodyLineLostOrDuplicated ==
    (det.pc = "done" /\ HeaderIdx # {}) =>
        /\ ContentLinesFrom(det.chapters, 1) = BodyLinesOf(det.lines)
        /\ \A k \in 1..Len(det.chapters) :
                \A l \in RangeOf(Split(det.chapters[k].content, Newline)) :
                    ~IsChapterHeader(Strip(l))

\* Body lines before and after a heading ended up in two chapters.
C25_Witness ==
    /\ det.pc = "done"
    /\ Len(det.chapters) = 2
    /\ BodyLinesOf(det.lines) = << <<"H", "e", "l", "l", "o", ".">>,
                                   <<"t", "e", "x", "t">>,
                                   <<"H", "e", "l", "l", "o", ".">> >>

\* A call of a stage begins in this step.
GenStarts == gen.pc = "idle" /\ gen'.pc # "idle"

CombStarts == comb.pc = "idle" /\ comb'.pc # "idle"

ConvStarts == conv.pc = "idle" /\ conv'.pc # "idle"

\* The chapter already has a combine call, running or ended.
PastSynthesis == pipe.pc \in {"combining", "converting"}

(* C26: within process_document the stages of a chapter run in a fixed
   order: its synthesis calls, then at most one combine call, then at most
   one convert call; combine is never called with zero fragments, convert
   never after a failed combine, and no stage of the next chapter starts
   before the last stage of the current one has ended. *)
C26_StageOrder ==
    [][ /\ GenStarts =>
            /\ comb.pc = "idle" /\ conv.pc = "idle"
            /\ ~PastSynthesis
            /\ gen'.output_file.ch = pipe.i
        /\ CombStarts =>
            /\ gen.pc = "idle" /\ conv.pc = "idle"
            /\ ~PastSynthesis
            /\ hist.called = ChunkPathsOfChapter
            /\ comb'.input_files # <<>>
            /\ comb'.output_file.ch = pipe.i
        /\ ConvStarts =>
            /\ gen.pc = "idle"
            /\ pipe.pc = "combining" /\ comb.pc = "returned"
            /\ conv'.output_file.ch = pipe.i
        /\ pipe'.i >= pipe.i
        /\ pipe'.i # pipe.i =>
            /\ gen.pc \in {"idle", "returned", "raised"} /\ gen'.pc = "idle"
            /\ comb.pc \in {"idle", "returned", "raised"} /\ comb'.pc = "idle"
            /\ conv.pc \in {"idle", "returned", "raised"} /\ conv'.pc = "idle"
        /\ (PastSynthesis /\ pipe'.i = pipe.i) =>
            pipe'.pc \in {"combining", "converting", "crashed"}
        /\ (pipe.pc = "converting" /\ pipe'.i = pipe.i) =>
            pipe'.pc \in {"converting", "crashed"}
      ]_vars

\* The converter runs for the second chapter after the first one's stages
\* have all ended.
C26_Witness ==
    /\ pipe.pc = "converting"
    /\ conv.pc = "ffmpeg_running"
    /\ pipe.i = 2
    /\ pipe.final_files = <<FinalPath(1)>>
    /\ Len(pipe.chunks) = 2

\* The directories of the run as a whole: the output directory and the
\* temporary workspace.
RunLevelPaths == {OutputDir, TempDir}

(* C27: every file a chapter creates, writes or deletes (its directory, its
   fragments, its master track, its conversion manifest and its final file)
   lies at a path used by that chapter only, so that chapters processed by
   concurrent workers never meet on a path: every path in existence during
   a run, the two run-level directories apart, names one chapter. *)
C27_ChapterPathsPrivate ==
    \A p \in fs \ RunLevelPaths : p.ch \in 1..Len(pipe.units)

\* process_document is left by an interrupt in this step.
Cancelled == pipe.pc # "crashed" /\ pipe'.pc = "crashed"
                /\ pipe'.error = "KeyboardInterrupt"

(* C28: when process_document is cancelled while an external tool is
   running, the partial output file of that tool is removed and the
   workspace is removed, and the final file of every chapter completed
   before the cancellation is still in the output directory. *)
C28_CancellationCleansUp ==
    [][ Cancelled =>
            /\ gen.pc = "say_running" => gen.output_file \notin fs'
            /\ comb.pc = "sox_running" => comb.output_file \notin fs'
            /\ conv.pc = "ffmpeg_running" => conv.output_file \notin fs'
            /\ \A p \in fs' : ~InWorkspace(p)
            /\ \A k \in 1..Len(pipe.final_files) :
                    pipe.final_files[k] \in fs => pipe.final_files[k] \in fs'
      ]_vars

\* -------------------------------------------------------------------------
\* The legacy script (src/legacy/main.py): create_aiff_files and
\* combine_aiff_files, as main() calls them one after the other.
\*
\* The files of the output directory are named by their file names, a
\* sequence of characters each.  pipe holds the locals of the script, gen the
\* child process of the speech engine, comb the command line of sox, and
\* hist.calls the number of Popen calls made for the chunk at hand.
\* -------------------------------------------------------------------------

\* The largest number of text groups handed to create_aiff_files.
MaxChunks == 11

\* A whitespace-only group may stand at one of the first MaxBlankAt places.
MaxBlankAt == 2

max_retries == 3

AiffSuffix == <<".", "a", "i", "f", "f">>

\* output_dir / f"{file_counter}.aiff"
AiffName(n) == Decimal(n) \o AiffSuffix

\* output_dir / "output.aiff"
OutputAiff == <<"o", "u", "t", "p", "u", "t">> \o AiffSuffix

\* Code points of the characters of the file names.
CodePoint(c) ==
    CASE c = "." -> 46
      [] c \in Digits -> 48 + (CHOOSE d \in 0..9 : DigitChar(d) = c)
      [] c = "a" -> 97
      [] c = "f" -> 102
      [] c = "i" -> 105
      [] c = "o" -> 111
      [] c = "p" -> 112
      [] c = "t" -> 116
      [] c = "u" -> 117

\* a < b for str: the first differing character decides by code point, and a
\* proper prefix is smaller.  Paths of one directory compare as their names.
StrLess(a, b) ==
    \/ /\ Len(a) < Len(b)
       /\ \A k \in 1..Len(a) : a[k] = b[k]
    \/ \E k \in 1..Len(a) :
           /\ k <= Len(b)
           /\ \A j \in 1..(k - 1) : a[j] = b[j]
           /\ CodePoint(a[k]) < CodePoint(b[k])

\* sorted(paths)
RECURSIVE SortedPaths(_)
SortedPaths(S) ==
    IF S = {} THEN <<>>
    ELSE LET least == CHOOSE f \in S : \A g \in S \ {f} : StrLess(f, g)
         IN  <<least>> \o SortedPaths(S \ {least})

\* f.stem of a name with one suffix
Stem(name) == SubSeq(name, 1, Len(name) - Len(AiffSuffix))

\* glob("*.aiff")
MatchesAiffGlob(name) ==
    /\ Len(name) >= Len(AiffSuffix)
    /\ SubSeq(name, Len(name) - Len(AiffSuffix) + 1, Len(name)) = AiffSuffix

\* str.isdigit
IsDigitStr(s) == s # <<>> /\ \A k \in 1..Len(s) : s[k] \in Digits

\* The list comprehension of combine_aiff_files, before sorted().
NumberedAiffFiles(files) ==
    {f \in files : MatchesAiffGlob(f) /\ f # OutputAiff /\ IsDigitStr(Stem(f))}

\* The text groups: n groups, the b-th of them whitespace only (b = 0: none).
LegacyGroups(n, b) ==
    [k \in 1..n |-> IF k = b THEN <<" ", "\n">> ELSE <<"a", "\n">>]

LegacyInputs ==
    {LegacyGroups(n, b) : n \in 0..MaxChunks, b \in 0..MaxBlankAt}

LegacyProcIdle == [pc |-> "idle"]

InitLegacy ==
    /\ det = DetIdle
    /\ chunker = ChunkerIdle
    /\ conv = [pc |-> "idle"]
    /\ comb = [pc |-> "idle"]
    /\ gen = LegacyProcIdle
    /\ fs \in {{}, {OutputAiff}}
    /\ \E group_text \in LegacyInputs :
          /\ pipe = [pc |-> "for", group_text |-> group_text, i |-> 0,
                     file_counter |-> 0, output_file |-> <<>>,
                     confirm |-> FALSE, retry_count |-> 0, error |-> "none"]
          /\ hist = [calls |-> 0]

\* for i, text in enumerate(group_text): a whitespace-only group is skipped.
LegSkipEmpty ==
    /\ pipe.pc = "for"
    /\ pipe.i < Len(pipe.group_text)
    /\ Strip(pipe.group_text[pipe.i + 1]) = <<>>
    /\ pipe' = [pipe EXCEPT !.i = @ + 1]
    /\ UNCHANGED <<det, chunker, fs, gen, comb, conv, hist>>

\* The next group has text: the locals of the retry loop are set.
LegEnterChunk ==
    /\ pipe.pc = "for"
    /\ pipe.i < Len(pipe.group_text)
    /\ Strip(pipe.group_text[pipe.i + 1]) # <<>>
    /\ pipe' = [pipe EXCEPT !.i = @ + 1,
                            !.output_file = AiffName(pipe.file_counter),
                            !.confirm = FALSE,
                            !.retry_count = 0,
                            !.pc = "while"]
    /\ hist' = [calls |-> 0]
    /\ UNCHANGED <<det, chunker, fs, gen, comb, conv>>

\* while not confirm and retry_count < max_retries: subprocess.Popen([say ..])
LegPopen ==
    /\ pipe.pc = "while"
    /\ ~pipe.confirm
    /\ pipe.retry_count < max_retries
    /\ gen' = [pc |-> "running", output_file |-> pipe.output_file,
               returncode |-> -1]
    /\ hist' = [calls |-> hist.calls + 1]
    /\ pipe' = [pipe EXCEPT !.pc = "wait"]
    /\ UNCHANGED <<det, chunker, fs, comb, conv>>

\* The engine writes (some of) its output file.
LegSayWrites ==
    /\ gen.pc = "running"
    /\ gen.output_file \notin fs
    /\ fs' = fs \cup {gen.output_file}
    /\ UNCHANGED <<det, chunker, gen, comb, conv, pipe, hist>>

\* The engine exits: with status 0 once its file is written, or with an error
\* status and no file.
LegSayExits ==
    /\ gen.pc = "running"
    /\ gen' = [gen EXCEPT !.pc = "exited",
                          !.returncode = IF gen.output_file \in fs THEN 0 ELSE 1]
    /\ UNCHANGED <<det, chunker, fs, comb, conv, pipe, hist>>

\* process.wait(timeout) returns: the return code is not looked at.
LegWaitReturns ==
    /\ pipe.pc = "wait"
    /\ gen.pc = "exited"
    /\ gen' = LegacyProcIdle
    /\ pipe' = [pipe EXCEPT !.confirm = TRUE, !.pc = "while"]
    /\ UNCHANGED <<det, chunker, fs, comb, conv, hist>>

\* except subprocess.TimeoutExpired: kill, wait, unlink, retry_count += 1
LegTimeout ==
    /\ pipe.pc = "wait"
    /\ gen.pc = "running"
    /\ gen' = LegacyProcIdle
    /\ fs' = fs \ {pipe.output_file}
    /\ pipe' = [pipe EXCEPT !.retry_count = @ + 1, !.pc = "while"]
    /\ UNCHANGED <<det, chunker, comb, conv, hist>>

\* The loop is left without confirm: raise RuntimeError; main() exits.
LegRaise ==
    /\ pipe.pc = "while"
    /\ ~pipe.confirm
    /\ pipe.retry_count >= max_retries
    /\ pipe' = [pipe EXCEPT !.pc = "raised", !.error = "RuntimeError"]
    /\ UNCHANGED <<det, chunker, fs, gen, comb, conv, hist>>

\* The loop is left with confirm: file_counter += 1
LegFileDone ==
    /\ pipe.pc = "while"
    /\ pipe.confirm
    /\ pipe' = [pipe EXCEPT !.file_counter = @ + 1, !.pc = "for"]
    /\ UNCHANGED <<det, chunker, fs, gen, comb, conv, hist>>

\* group_text is exhausted: create_aiff_files returns.
LegCreateReturn ==
    /\ pipe.pc = "for"
    /\ pipe.i = Len(pipe.group_text)
    /\ pipe' = [pipe EXCEPT !.pc = "created"]
    /\ UNCHANGED <<det, chunker, fs, gen, comb, conv, hist>>

\* combine_aiff_files up to the start of sox: the numbered files are listed
\* and sorted; with none of them FileNotFoundError is raised.
LegCombineStart ==
    /\ pipe.pc = "created"
    /\ LET aiff_files == SortedPaths(NumberedAiffFiles(fs))
       IN  IF aiff_files = <<>>
           THEN /\ pipe' = [pipe EXCEPT !.pc = "combine_raised",
                                        !.error = "FileNotFoundError"]
                /\ UNCHANGED comb
           ELSE /\ comb' = [pc |-> "sox", cmd |-> aiff_files,
                            output_file |-> OutputAiff]
                /\ pipe' = [pipe EXCEPT !.pc = "sox"]
    /\ UNCHANGED <<det, chunker, fs, gen, conv, hist>>

\* sox succeeds: output.aiff is written and, with cleanup=True, the numbered
\* files are unlinked.
LegSoxSucceeds ==
    /\ pipe.pc = "sox"
    /\ comb.pc = "sox"
    /\ fs' = (fs \cup {comb.output_file}) \ RangeOf(comb.cmd)
    /\ comb' = [comb EXCEPT !.pc = "done"]
    /\ pipe' = [pipe EXCEPT !.pc = "combined"]
    /\ UNCHANGED <<det, chunker, gen, conv, hist>>

\* sox fails or is not installed: RuntimeError.
LegSoxFails ==
    /\ pipe.pc = "sox"
    /\ comb.pc = "sox"
    /\ comb' = [comb EXCEPT !.pc = "failed"]
    /\ pipe' = [pipe EXCEPT !.pc = "combine_raised",
                            !.error = "RuntimeError"]
    /\ UNCHANGED <<det, chunker, fs, gen, conv, hist>>

NextLegacy ==
    \/ LegSkipEmpty
    \/ LegEnterChunk
    \/ LegPopen
    \/ LegSayWrites
    \/ LegSayExits
    \/ LegWaitReturns
    \/ LegTimeout
    \/ LegRaise
    \/ LegFileDone
    \/ LegCreateReturn
    \/ LegCombineStart
    \/ LegSoxSucceeds
    \/ LegSoxFails

SpecLegacy == InitLegacy /\ [][NextLegacy]_vars

\* The files create_aiff_files has finished so far, by number.
LegacyProduced == {n \in 0..MaxChunks : AiffName(n) \in fs}

\* The script is between two groups, or create_aiff_files has returned.
LegacyBetweenChunks == pipe.pc \in {"for", "created"}

\* At most max_retries Popen calls are made for any one group.
LegacyAtMostThreeCalls == hist.calls <= max_retries

\* Whenever the loop condition is tested no engine process is left alive and,
\* after a timeout, the output file of the attempt is gone.
LegacyCleanBeforeRetry ==
    (pipe.pc = "while" /\ ~pipe.confirm)
        => (gen.pc = "idle" /\ pipe.output_file \notin fs)

\* RuntimeError out of create_aiff_files is raised after max_retries
\* timeouts, and max_retries timeouts lead nowhere else.
LegacyRaisesAfterThird ==
    /\ pipe.pc = "raised"
           => (pipe.error = "RuntimeError" /\ pipe.retry_count = max_retries
               /\ hist.calls = max_retries)
    /\ (pipe.pc \in {"while", "wait"} /\ pipe.retry_count = max_retries)
           => ~pipe.confirm /\ gen.pc = "idle"

\* The files produced are numbered 0 .. file_counter - 1 without a gap.
LegacyNoGap ==
    LegacyBetweenChunks => LegacyProduced = 0..(pipe.file_counter - 1)

\* The retry loop alone: calls, cleanup and the raise.
LegacyRetryLoop ==
    /\ LegacyAtMostThreeCalls
    /\ LegacyCleanBeforeRetry
    /\ LegacyRaisesAfterThird

\* C29: in the legacy script create_aiff_files starts the speech engine at
\* most 3 times for any one chunk; after each timeout the process is killed
\* and the partial output file deleted before the next attempt; after the
\* third timeout RuntimeError is raised; and the files produced are numbered
\* 0, 1, 2, ... with no gap, a skipped empty chunk consuming no number.
C29_RetryAndNumbering == LegacyRetryLoop /\ LegacyNoGap

\* The number a file stem spells.
RECURSIVE NumberOf(_)
NumberOf(digits) ==
    IF digits = <<>> THEN 0
    ELSE 10 * NumberOf(SubSeq(digits, 1, Len(digits) - 1))
         + (CHOOSE d \in 0..9 : DigitChar(d) = digits[Len(digits)])

\* The names of the sox command line are in ascending numeric order.
LegacyAscending ==
    \A j, k \in 1..Len(comb.cmd) :
        j < k => NumberOf(Stem(comb.cmd[j])) < NumberOf(Stem(comb.cmd[k]))

\* With numbers of one digit only the order is the numeric one.
LegacyOrderUpToTen ==
    (comb.pc = "sox" /\ \A k \in 1..Len(comb.cmd) : Len(Stem(comb.cmd[k])) = 1)
        => LegacyAscending

\* C30: in the legacy script combine_aiff_files hands the numbered fragments
\* to sox in ascending numeric order, the order of the chunks they were
\* produced from, for any number of fragments, more than ten included.
C30_NumericOrder == comb.pc = "sox" => LegacyAscending

====
